---- MODULE Spec2Model ----
(***************************************************************************)
(* Card configurator: the procedural geometry generator (CardGeometry) and *)
(* the scene host that drives it (TestHarness).                            *)
(*                                                                         *)
(* Numbers.  The source computes in IEEE doubles; here lengths are small   *)
(* integers of an arbitrary length unit and every coordinate is kept in    *)
(* fixed point, PosScale steps to the unit.  Math.cos / Math.sin are a     *)
(* table of the quarter circle in steps of pi/16 (the step of the source's *)
(* cornerSegments = 8), Math.sqrt is the integer square root, and a        *)
(* quotient a / b whose value is only ever compared (the UVs) is kept as   *)
(* the pair [num |-> a, den |-> b], so that a zero divisor is a value the  *)
(* model can hold, as Infinity / NaN is in the source.                     *)
(***************************************************************************)
EXTENDS Integers, Sequences, FiniteSets, TLC

(* ------------------------------ bounds -------------------------------- *)

\* Largest width, height and corner radius the host is asked to set.
MaxDim == 3

\* Largest thickness the host is asked to set.
MaxThickness == 1

\* Number of updateDimensions calls explored after construction.
MaxRebuilds == 2

\* Number of reloadShaders calls explored after construction.
MaxReloads == 1

\* Number of quarter turns the user drags the camera.
MaxOrbit == 1

\* Number of loads the ResourceManager starts.
MaxLoads == 3

Lengths == 0..MaxDim

Thicknesses == 0..MaxThickness

(* --------------------------- fixed point ------------------------------ *)

\* cos(k * pi/16) for k = 0..8, three decimal digits.
CosTable == <<1000, 981, 924, 831, 707, 556, 383, 195, 0>>

\* The fixed-point value of 1.0 for the trigonometric table and the normals.
One == CosTable[1]

\* Table steps in a quarter circle.
QuarterSteps == Len(CosTable) - 1

\* Math.PI in the fixed point of the table.
PiFixed == 3142

\* Fixed-point steps per length unit; even, so that width / 2 is exact.
PosScale == 2 * One

\* Math.cos of the angle idx * pi/16, idx in 0 .. 4 * QuarterSteps.
Cos(idx) ==
    LET a == idx % (4 * QuarterSteps) IN
    IF a <= QuarterSteps THEN CosTable[a + 1]
    ELSE IF a <= 2 * QuarterSteps THEN -CosTable[2 * QuarterSteps - a + 1]
    ELSE IF a <= 3 * QuarterSteps THEN -CosTable[a - 2 * QuarterSteps + 1]
    ELSE CosTable[4 * QuarterSteps - a + 1]

\* Math.sin of the angle idx * pi/16.
Sin(idx) == Cos(idx + 3 * QuarterSteps)

RECURSIVE SqrtIter(_, _, _)
SqrtIter(n, lo, hi) ==
    IF lo >= hi THEN lo
    ELSE LET mid == (lo + hi + 1) \div 2 IN
         IF mid * mid <= n THEN SqrtIter(n, mid, hi) ELSE SqrtIter(n, lo, mid - 1)

\* Math.sqrt on fixed-point squares: the integer square root.
Sqrt(n) ==
    SqrtIter(n, 0, IF n < 65536 THEN (IF n < 256 THEN 16 ELSE 256)
                   ELSE (IF n < 16777216 THEN 4096 ELSE 46340))

\* a / b rounded toward zero, b > 0.
Quot(a, b) == IF a >= 0 THEN a \div b ELSE -((-a) \div b)

\* The quotient a / b of the source, kept unevaluated.
Ratio(a, b) == [num |-> a, den |-> b]

(* ---------------------------- CardGeometry ---------------------------- *)

\* private cornerSegments: number = 8
cornerSegments == 8

\* Points of the outline: four arcs of segments + 1 points.
NumOutline(segments) == 4 * (segments + 1)

\* ArcPoint with the top-left and bottom-right arcs centred on each other's
\* corner (the x sign of the arc centre taken from the y rule).
ArcPointSwappedCentre(q, i, halfWidth, halfHeight, radius, segments) ==
    LET idx == (QuarterSteps * i) \div segments + QuarterSteps * q
        cx  == IF q \in {0, 1} THEN halfWidth - radius ELSE -halfWidth + radius
        cy  == IF q \in {0, 1} THEN halfHeight - radius ELSE -halfHeight + radius
    IN  [x |-> cx + (radius * Cos(idx)) \div One,
         y |-> cy + (radius * Sin(idx)) \div One]

\* One pass of a corner loop: point i of the arc of corner q, where q counts
\* the four loops in the order they are written (0 top-right, 1 top-left,
\* 2 bottom-left, 3 bottom-right).
ArcPoint(q, i, halfWidth, halfHeight, radius, segments) ==
    LET idx == (QuarterSteps * i) \div segments + QuarterSteps * q
        cx  == IF q \in {0, 3} THEN halfWidth - radius ELSE -halfWidth + radius
        cy  == IF q \in {0, 1} THEN halfHeight - radius ELSE -halfHeight + radius
    IN  [x |-> cx + (radius * Cos(idx)) \div One,
         y |-> cy + (radius * Sin(idx)) \div One]

RECURSIVE CornerLoop(_, _, _, _, _, _)
\* for (let i = 0; i <= cornerSegments; i++) { ... push(point) } of corner q.
CornerLoop(q, i, halfWidth, halfHeight, radius, segments) ==
    IF i > segments THEN <<>>
    ELSE <<ArcPoint(q, i, halfWidth, halfHeight, radius, segments)>> \o
         CornerLoop(q, i + 1, halfWidth, halfHeight, radius, segments)

\* The outline as the four loops push it; point i of the source is Outline[i + 1].
Outline(halfWidth, halfHeight, radius, segments) ==
    CornerLoop(0, 0, halfWidth, halfHeight, radius, segments) \o
    CornerLoop(1, 0, halfWidth, halfHeight, radius, segments) \o
    CornerLoop(2, 0, halfWidth, halfHeight, radius, segments) \o
    CornerLoop(3, 0, halfWidth, halfHeight, radius, segments)

\* FaceUV dividing by the half extents instead of the full width and height.
FaceUVHalfExtent(x, y, halfWidth, halfHeight, effectiveWidth, effectiveHeight) ==
    <<Ratio(x + halfWidth, halfWidth), Ratio(y + halfHeight, halfHeight)>>

\* u and v of a face outline point.
FaceUV(x, y, halfWidth, halfHeight, effectiveWidth, effectiveHeight) ==
    <<Ratio(x + halfWidth, effectiveWidth), Ratio(y + halfHeight, effectiveHeight)>>

\* FaceIndices with the fan left open: the loop stops before the triangle that
\* wraps from the last outline vertex to the first.
FaceIndicesOpenFan(startIndex, numOutlineVerts) ==
    [j \in 1..(3 * (numOutlineVerts - 1)) |->
        LET i == (j - 1) \div 3
        IN  CASE (j - 1) % 3 = 0 -> startIndex
              [] (j - 1) % 3 = 1 -> startIndex + 1 + i
              [] OTHER           -> startIndex + 1 + (i + 1)]

\* The fan of a face: numOutlineVerts triangles (center, current, next).
FaceIndices(startIndex, numOutlineVerts) ==
    [j \in 1..(3 * numOutlineVerts) |->
        LET i    == (j - 1) \div 3
            next == (i + 1) % numOutlineVerts
        IN  CASE (j - 1) % 3 = 0 -> startIndex
              [] (j - 1) % 3 = 1 -> startIndex + 1 + i
              [] OTHER           -> startIndex + 1 + next]

\* buildFace: what it appends to the four arrays, given the vertices already there.
buildFace(startIndex, halfWidth, halfHeight, z, normal, effectiveWidth, effectiveHeight, radius) ==
    LET outlinePoints == Outline(halfWidth, halfHeight, radius, cornerSegments)
        n == Len(outlinePoints)
    IN  [positions |-> <<(<<0, 0, z>>)>> \o
                       [k \in 1..n |-> <<outlinePoints[k].x, outlinePoints[k].y, z>>],
         normals   |-> [k \in 1..(n + 1) |-> normal],
         uvs       |-> <<(<<Ratio(1, 2), Ratio(1, 2)>>)>> \o
                       [k \in 1..n |-> FaceUV(outlinePoints[k].x, outlinePoints[k].y,
                                              halfWidth, halfHeight,
                                              effectiveWidth, effectiveHeight)],
         indices   |-> FaceIndices(startIndex, n)]

\* calculatePerimeter: straight sides plus a full circle of the corner radius.
calculatePerimeter(w, h, radius) ==
    LET straightSides == 2 * (w - 2 * radius) + 2 * (h - 2 * radius)
        cornerArcs    == (2 * PiFixed * radius) \div One
    IN  straightSides + cornerArcs

\* Math.sqrt(dx * dx + dy * dy) of the step between two outline points.
EdgeLength(a, b) ==
    LET dx == b.x - a.x
        dy == b.y - a.y
    IN  Sqrt(dx * dx + dy * dy)

RECURSIVE ChordLoop(_, _)
\* The step lengths calculatePerimeterDistance adds, each taken once: entry
\* i + 1 is the step from outline point i to outline point i + 1.
ChordLoop(outline, i) ==
    IF i + 1 >= Len(outline) THEN <<>>
    ELSE <<EdgeLength(outline[i + 1], outline[i + 2])>> \o ChordLoop(outline, i + 1)

RECURSIVE calculatePerimeterDistance(_, _)
\* calculatePerimeterDistance: the step lengths summed from point 0 up to point index.
calculatePerimeterDistance(chords, index) ==
    IF index <= 0 THEN 0
    ELSE calculatePerimeterDistance(chords, index - 1) + chords[index]

\* The normal written on both vertices of outline point i.  The source's guard
\* len > 0.0001 is len > 0 here: 0.0001 of a unit is below one fixed-point step.
SideNormal(outline, i, numPoints) ==
    LET next == (i + 1) % numPoints
        dx   == outline[next + 1].x - outline[i + 1].x
        dy   == outline[next + 1].y - outline[i + 1].y
        len  == EdgeLength(outline[i + 1], outline[next + 1])
        nx   == IF len > 0 THEN Quot(-dy * One, len) ELSE 0
        ny   == IF len > 0 THEN Quot(dx * One, len) ELSE 0
    IN  <<nx, ny, 0>>

RECURSIVE SideVertexLoop(_, _, _, _, _, _)
\* for (let i = 0; i < numPoints; i++): the front edge vertex and the back edge
\* vertex of outline point i, each as [pos, nrm, uv].
SideVertexLoop(i, frontOutline, backOutline, chords, perimeter, halfThickness) ==
    IF i >= Len(frontOutline) THEN <<>>
    ELSE LET front == frontOutline[i + 1]
             back  == backOutline[i + 1]
             nrm   == SideNormal(frontOutline, i, Len(frontOutline))
             u     == Ratio(calculatePerimeterDistance(chords, i), perimeter)
         IN  << [pos |-> <<front.x, front.y, halfThickness>>, nrm |-> nrm,
                 uv |-> <<u, Ratio(0, 1)>>],
                [pos |-> <<back.x, back.y, -halfThickness>>, nrm |-> nrm,
                 uv |-> <<u, Ratio(1, 1)>>] >> \o
             SideVertexLoop(i + 1, frontOutline, backOutline, chords, perimeter, halfThickness)

\* The two triangles of every side quad.
SideIndices(startIndex, numPoints) ==
    [j \in 1..(6 * numPoints) |->
        LET i    == (j - 1) \div 6
            base == startIndex + i * 2
        IN  CASE (j - 1) % 6 = 0 -> base
              [] (j - 1) % 6 = 1 -> base + 1
              [] (j - 1) % 6 = 2 -> base + 2
              [] (j - 1) % 6 = 3 -> base + 1
              [] (j - 1) % 6 = 4 -> base + 3
              [] OTHER           -> base + 2]

\* buildSideFaces: what it appends to the four arrays.
buildSideFaces(startIndex, halfWidth, halfHeight, halfThickness, w, h, radius) ==
    LET frontOutline == Outline(halfWidth, halfHeight, radius, cornerSegments)
        backOutline  == Outline(halfWidth, halfHeight, radius, cornerSegments)
        numPoints    == Len(frontOutline)
        perimeter    == calculatePerimeter(w, h, radius)
        chords       == ChordLoop(frontOutline, 0)
        verts        == SideVertexLoop(0, frontOutline, backOutline, chords, perimeter,
                                       halfThickness)
    IN  [positions |-> [k \in 1..Len(verts) |-> verts[k].pos],
         normals   |-> [k \in 1..Len(verts) |-> verts[k].nrm],
         uvs       |-> [k \in 1..Len(verts) |-> verts[k].uv],
         indices   |-> SideIndices(startIndex, numPoints)]

\* buildGeometry: the attributes set on the new BufferGeometry.
buildGeometry(w, h, t, r) ==
    LET halfWidth     == (w * PosScale) \div 2
        halfHeight    == (h * PosScale) \div 2
        halfThickness == (t * PosScale) \div 2
        front == buildFace(0, halfWidth, halfHeight, halfThickness, <<0, 0, One>>,
                           w * PosScale, h * PosScale, r * PosScale)
        back  == buildFace(Len(front.positions), halfWidth, halfHeight, -halfThickness,
                           <<0, 0, -One>>, w * PosScale, h * PosScale, r * PosScale)
        side  == buildSideFaces(Len(front.positions) + Len(back.positions),
                                halfWidth, halfHeight, halfThickness,
                                w * PosScale, h * PosScale, r * PosScale)
    IN  [positions |-> front.positions \o back.positions \o side.positions,
         normals   |-> front.normals \o back.normals \o side.normals,
         uvs       |-> front.uvs \o back.uvs \o side.uvs,
         indices   |-> front.indices \o back.indices \o side.indices]

\* The CardSpec invariant of the data model.
ValidSpec(w, h, t, r) ==
    /\ w > 0 /\ h > 0 /\ t > 0 /\ r >= 0
    /\ 2 * r <= w /\ 2 * r <= h

(* ------------- CardGeometry, the constructor-arguments class ---------- *)
(* The class of the same name whose constructor takes (width, height,      *)
(* thickness, cornerRadius, cornerSegments) and which main.ts constructs.  *)
(* A number of this class that can be NaN is kept as a quotient: a finite  *)
(* value v is v / 1 and NaN is 0 / 0, the division that produces it.       *)

\* cornerSegments arguments the constructor is given; 8 is its default.
SegmentChoices == {0, 1, 2, cornerSegments}

\* 0 / 0.
NaN == Ratio(0, 0)

\* A finite number as a quotient.
Finite(v) == Ratio(v, 1)

\* The quotient is a finite number.
IsFinite(q) == q.den # 0

\* One pass of a corner loop of buildRoundedRectFace: the entry pushed on
\* cornerPoints.  With segs = 0 the loop runs once, for i = 0, and
\* i / segments is 0 / 0: the angle, its cosine and sine, x, y, u and v are NaN.
RoundedRectPoint(q, i, halfWidth, halfHeight, radius, segs, z, flip) ==
    IF segs = 0
    THEN [x |-> NaN, y |-> NaN, z |-> z, u |-> NaN, v |-> NaN]
    ELSE LET p == ArcPoint(q, i, halfWidth, halfHeight, radius, segs)
         IN  [x |-> Finite(p.x * flip),
              y |-> Finite(p.y),
              z |-> z,
              u |-> Ratio(p.x + halfWidth, halfWidth * 2),
              v |-> Ratio(p.y + halfHeight, halfHeight * 2)]

RECURSIVE RoundedRectLoop(_, _, _, _, _, _, _, _)
\* for (let i = 0; i <= segments; i++) { cornerPoints.push(...) } of corner q.
RoundedRectLoop(q, i, halfWidth, halfHeight, radius, segs, z, flip) ==
    IF i > segs THEN <<>>
    ELSE <<RoundedRectPoint(q, i, halfWidth, halfHeight, radius, segs, z, flip)>> \o
         RoundedRectLoop(q, i + 1, halfWidth, halfHeight, radius, segs, z, flip)

\* buildRoundedRectFace: the corner points it returns (the centre point it
\* pushes on `points` is not returned).
buildRoundedRectFace(halfWidth, halfHeight, radius, segs, z, flip) ==
    RoundedRectLoop(0, 0, halfWidth, halfHeight, radius, segs, z, flip) \o
    RoundedRectLoop(1, 0, halfWidth, halfHeight, radius, segs, z, flip) \o
    RoundedRectLoop(2, 0, halfWidth, halfHeight, radius, segs, z, flip) \o
    RoundedRectLoop(3, 0, halfWidth, halfHeight, radius, segs, z, flip)

\* addFace: what it appends to the four arrays.
addFace(startIndex, facePoints, normal) ==
    LET n == Len(facePoints)
    IN  [positions |-> <<(<<Finite(0), Finite(0), facePoints[1].z>>)>> \o
                       [k \in 1..n |-> <<facePoints[k].x, facePoints[k].y, facePoints[k].z>>],
         normals   |-> [k \in 1..(n + 1) |-> normal],
         uvs       |-> <<(<<Ratio(1, 2), Ratio(1, 2)>>)>> \o
                       [k \in 1..n |-> <<facePoints[k].u, facePoints[k].v>>],
         indices   |-> FaceIndices(startIndex, n)]

RECURSIVE ArgsSideVertexLoop(_, _, _, _)
\* for (let i = 0; i < numPoints; i++): the front edge vertex and the back edge
\* vertex of outline point i.  `outline` holds the finite x and y of
\* frontOutline, or is empty when they are NaN: then dx, dy and len are NaN,
\* len > 0 is false and the normal is (0, 0, 0).
ArgsSideVertexLoop(i, frontOutline, backOutline, outline) ==
    IF i >= Len(frontOutline) THEN <<>>
    ELSE LET front == frontOutline[i + 1]
             back  == backOutline[i + 1]
             nrm   == IF outline = <<>> THEN <<0, 0, 0>>
                      ELSE SideNormal(outline, i, Len(frontOutline))
             u     == Ratio(i, Len(frontOutline))
         IN  << [pos |-> <<front.x, front.y, front.z>>, nrm |-> nrm,
                 uv |-> <<u, Ratio(0, 1)>>],
                [pos |-> <<back.x, back.y, back.z>>, nrm |-> nrm,
                 uv |-> <<u, Ratio(1, 1)>>] >> \o
             ArgsSideVertexLoop(i + 1, frontOutline, backOutline, outline)

\* The four arrays of the side band, from its vertices in push order.
ArgsSideArrays(startIndex, numPoints, verts) ==
    [positions |-> [k \in 1..Len(verts) |-> verts[k].pos],
     normals   |-> [k \in 1..Len(verts) |-> verts[k].nrm],
     uvs       |-> [k \in 1..Len(verts) |-> verts[k].uv],
     indices   |-> SideIndices(startIndex, numPoints)]

\* buildSideFaces of this class: what it appends to the four arrays.  Both
\* outlines are built with flip = 1.
ArgsBuildSideFaces(startIndex, halfWidth, halfHeight, radius, segs, halfThickness) ==
    ArgsSideArrays(startIndex, NumOutline(segs),
        ArgsSideVertexLoop(0,
            buildRoundedRectFace(halfWidth, halfHeight, radius, segs, halfThickness, 1),
            buildRoundedRectFace(halfWidth, halfHeight, radius, segs, -halfThickness, 1),
            IF segs = 0 THEN <<>> ELSE Outline(halfWidth, halfHeight, radius, segs)))

\* The arrays after the front face, the back face and the side band were
\* appended in this order.
ArgsAppendAll(front, back, side) ==
    [positions |-> front.positions \o back.positions \o side.positions,
     normals   |-> front.normals \o back.normals \o side.normals,
     uvs       |-> front.uvs \o back.uvs \o side.uvs,
     indices   |-> front.indices \o back.indices \o side.indices]

\* buildGeometry of this class: the attributes set on its one BufferGeometry.
\* The front face is built with flip = 1, the back face with flip = -1; each
\* part starts at positions.length / 3, the vertices pushed before it.
ArgsBuildGeometry(w, h, t, r, segs) ==
    ArgsAppendAll(
        addFace(0,
                buildRoundedRectFace((w * PosScale) \div 2, (h * PosScale) \div 2,
                                     r * PosScale, segs, (t * PosScale) \div 2, 1),
                <<0, 0, One>>),
        addFace(NumOutline(segs) + 1,
                buildRoundedRectFace((w * PosScale) \div 2, (h * PosScale) \div 2,
                                     r * PosScale, segs, -((t * PosScale) \div 2), -1),
                <<0, 0, -One>>),
        ArgsBuildSideFaces(2 * (NumOutline(segs) + 1),
                           (w * PosScale) \div 2, (h * PosScale) \div 2,
                           r * PosScale, segs, (t * PosScale) \div 2))

(* --------------------------- MaterialPipeline ------------------------- *)
(* A texture is named by the object it is; a uniform holds a texture, a    *)
(* flag or a number.  Numbers of the material and of the shaders are fixed *)
(* point with One = 1.0.                                                   *)

\* An option that is not given: options.foilMask === undefined.
Undefined == [undefined |-> TRUE]

\* The texture a loader delivers for an image: texture.image is the image.
LoadedTexture(image) == [image |-> image]

\* Textures the host has loaded and can pass as options.
LoadedTextures == {LoadedTexture("textureA"), LoadedTexture("textureB")}

\* The four texture options of createCardMaterial and updateLayerTextures.
OptionKeys == {"artwork", "foilMask", "uvMask", "embossMap"}

\* Every options object the host can pass.
OptionObjects == [OptionKeys -> LoadedTextures \cup {Undefined}]

\* The colour createCardMaterial passes for the placeholder of an option.
PlaceholderColor(key) ==
    CASE key = "artwork"   -> <<(8 * One) \div 10, (8 * One) \div 10, (9 * One) \div 10>>
      [] key = "embossMap" -> <<One \div 2, One \div 2, One \div 2>>
      [] OTHER             -> <<0, 0, 0>>

\* createPlaceholderTexture(width, height, color): a CanvasTexture of a canvas
\* filled with rgb(floor(r * 255), floor(g * 255), floor(b * 255)).  `slot`
\* names the call that made the object: each call makes its own texture.
createPlaceholderTexture(slot, w, h, color) ==
    [placeholder |-> slot,
     canvas      |-> <<w, h>>,
     fillStyle   |-> [i \in 1..3 |-> (color[i] * 255) \div One]]

\* options.key || placeholder.
OrPlaceholder(options, key) ==
    IF options[key] # Undefined THEN options[key]
    ELSE createPlaceholderTexture(key, 512, 512, PlaceholderColor(key))

\* createCardMaterial binding each option as it is given, without the
\* || createPlaceholderTexture(...) fallbacks.
createCardMaterialNoFallback(options) ==
    [uArtworkMap     |-> options["artwork"],
     uFoilMask       |-> options["foilMask"],
     uUvMask         |-> options["uvMask"],
     uEmbossMap      |-> options["embossMap"],
     foilMask        |-> options["foilMask"],
     uvMask          |-> options["uvMask"],
     embossHeightMap |-> options["embossMap"],
     uBaseColor      |-> <<(8 * One) \div 10, (8 * One) \div 10, (9 * One) \div 10>>,
     uMetallic       |-> 0,
     uGloss          |-> One \div 2,
     uEmbossStrength |-> One \div 2,
     foilEnabled     |-> FALSE,
     uvEnabled       |-> FALSE,
     embossEnabled   |-> FALSE,
     foilIntensity   |-> One,
     uvGlossiness    |-> One,
     embossIntensity |-> One \div 2,
     lightDirection  |-> <<One \div 2, One \div 2, One \div 2>>,
     cameraPosition  |-> <<0, 0, 150 * One>>]

\* createCardMaterial: the uniforms of the ShaderMaterial it returns.
createCardMaterial(options) ==
    [uArtworkMap     |-> OrPlaceholder(options, "artwork"),
     uFoilMask       |-> OrPlaceholder(options, "foilMask"),
     uUvMask         |-> OrPlaceholder(options, "uvMask"),
     uEmbossMap      |-> OrPlaceholder(options, "embossMap"),
     foilMask        |-> OrPlaceholder(options, "foilMask"),
     uvMask          |-> OrPlaceholder(options, "uvMask"),
     embossHeightMap |-> OrPlaceholder(options, "embossMap"),
     uBaseColor      |-> <<(8 * One) \div 10, (8 * One) \div 10, (9 * One) \div 10>>,
     uMetallic       |-> 0,
     uGloss          |-> One \div 2,
     uEmbossStrength |-> One \div 2,
     foilEnabled     |-> FALSE,
     uvEnabled       |-> FALSE,
     embossEnabled   |-> FALSE,
     foilIntensity   |-> One,
     uvGlossiness    |-> One,
     embossIntensity |-> One \div 2,
     lightDirection  |-> <<One \div 2, One \div 2, One \div 2>>,
     cameraPosition  |-> <<0, 0, 150 * One>>]

\* One texture branch of updateLayerTextures: if the option is given, the main
\* uniform is set and, if the material has the alias uniform, the alias too.
SetLayerTexture(uniforms, options, key, main, alias) ==
    IF options[key] = Undefined THEN uniforms
    ELSE IF alias \in DOMAIN uniforms
         THEN [uniforms EXCEPT ![main] = options[key], ![alias] = options[key]]
         ELSE [uniforms EXCEPT ![main] = options[key]]

\* updateLayerTextures setting the main uniforms only: the alias branches
\* (if (material.uniforms.foilMask) ...) left out.
updateLayerTexturesMainOnly(uniforms, options) ==
    SetLayerTexture(
        SetLayerTexture(
            SetLayerTexture(
                SetLayerTexture(uniforms, options, "artwork", "uArtworkMap", "uArtworkMap"),
                options, "foilMask", "uFoilMask", "uFoilMask"),
            options, "uvMask", "uUvMask", "uUvMask"),
        options, "embossMap", "uEmbossMap", "uEmbossMap")

\* updateLayerTextures: the uniforms of the material after the call.  The
\* artwork branch sets uArtworkMap alone.
updateLayerTextures(uniforms, options) ==
    SetLayerTexture(
        SetLayerTexture(
            SetLayerTexture(
                SetLayerTexture(uniforms, options, "artwork", "uArtworkMap", "uArtworkMap"),
                options, "foilMask", "uFoilMask", "foilMask"),
            options, "uvMask", "uUvMask", "uvMask"),
        options, "embossMap", "uEmbossMap", "embossHeightMap")

(* ------------------------------ GLSL values --------------------------- *)
(* A float is fixed point with One = 1.0, a vec3 a triple of floats.  Every *)
(* product is rounded toward zero to the fixed point.                      *)

Vec3(f) == <<f, f, f>>

VAdd(a, b) == <<a[1] + b[1], a[2] + b[2], a[3] + b[3]>>

VNeg(a) == <<-a[1], -a[2], -a[3]>>

\* vec3 * float.
VScale(a, f) == <<Quot(a[1] * f, One), Quot(a[2] * f, One), Quot(a[3] * f, One)>>

dot(a, b) == Quot(a[1] * b[1] + a[2] * b[2] + a[3] * b[3], One)

cross(a, b) ==
    <<Quot(a[2] * b[3] - a[3] * b[2], One),
      Quot(a[3] * b[1] - a[1] * b[3], One),
      Quot(a[1] * b[2] - a[2] * b[1], One)>>

length(a) == Sqrt(a[1] * a[1] + a[2] * a[2] + a[3] * a[3])

\* normalize; of the zero vector GLSL leaves it undefined, and no input drawn
\* here produces one.
normalize(a) ==
    IF length(a) = 0 THEN a
    ELSE <<Quot(a[1] * One, length(a)), Quot(a[2] * One, length(a)),
           Quot(a[3] * One, length(a))>>

\* mix(x, y, a) = x * (1 - a) + y * a on floats.
mix(x, y, a) == Quot(x * (One - a) + y * a, One)

\* mix on vec3 with a float weight.
VMix(x, y, a) == <<mix(x[1], y[1], a), mix(x[2], y[2], a), mix(x[3], y[3], a)>>

\* max(f, 0.0).
Max0(f) == IF f > 0 THEN f ELSE 0

\* reflect(I, N) = I - 2 * dot(N, I) * N.
reflect(I, N) == VAdd(I, VScale(N, -2 * dot(N, I)))

RECURSIVE pow(_, _)
\* pow(f, n) for a whole exponent n, by repeated squaring (the exponents of
\* the shaders are 2, 32 and 64), each product rounded as a GLSL float product.
pow(f, n) ==
    IF n = 0 THEN One
    ELSE IF n % 2 = 0 THEN Quot(pow(f, n \div 2) * pow(f, n \div 2), One)
    ELSE Quot(f * pow(f, n - 1), One)

\* clamp(v, 0.0, 1.0) on vec3.
Clamp01(a) ==
    [i \in 1..3 |-> IF a[i] < 0 THEN 0 ELSE IF a[i] > One THEN One ELSE a[i]]

(* ---------------------------- shader stages --------------------------- *)
(* px holds what the fragment reads: the uniforms and the texture samples  *)
(* at its uv (texture2D(...).r, and the four neighbours of the height map).*)

\* applyEmbossLayer without the embossEnabled test.
applyEmbossLayerAlwaysOn(baseNormal, px) ==
    IF px.height < One \div 100 THEN baseNormal
    ELSE normalize(VMix(
            baseNormal,
            normalize(cross(
                <<One, 0, Quot((px.heightR - px.heightL) * px.embossIntensity, One)>>,
                <<0, One, Quot((px.heightU - px.heightD) * px.embossIntensity, One)>>)),
            Quot(Quot(px.height * px.embossIntensity, One) * (One \div 2), One)))

\* applyEmbossLayer(baseNormal, uv), the normal-perturbing module.
applyEmbossLayer(baseNormal, px) ==
    IF ~px.embossEnabled THEN baseNormal
    ELSE IF px.height < One \div 100 THEN baseNormal
    ELSE normalize(VMix(
            baseNormal,
            normalize(cross(
                <<One, 0, Quot((px.heightR - px.heightL) * px.embossIntensity, One)>>,
                <<0, One, Quot((px.heightU - px.heightD) * px.embossIntensity, One)>>)),
            Quot(Quot(px.height * px.embossIntensity, One) * (One \div 2), One)))

\* The metallic colour of the foil module, vec3(0.8, 0.7, 0.5).
foilColor == <<(8 * One) \div 10, (7 * One) \div 10, (5 * One) \div 10>>

\* specular of the foil module: pow(max(dot(viewDir, reflect(-lightDir, normal)), 0), 32).
FoilSpecular(normal, viewDir, lightDir) ==
    pow(Max0(dot(viewDir, reflect(VNeg(lightDir), normal))), 32)

\* applyFoilLayer with the mask test left out and the blend weight taken from
\* foilIntensity alone.
applyFoilLayerUnmasked(baseColor, normal, viewDir, lightDir, px) ==
    IF ~px.foilEnabled THEN baseColor
    ELSE VAdd(VMix(baseColor, foilColor, px.foilIntensity),
              VScale(VScale(Vec3(One),
                            Quot(FoilSpecular(normal, viewDir, lightDir) * px.foilMaskSample,
                                 One)),
                     (3 * One) \div 10))

\* applyFoilLayer(baseColor, uv, normal, viewDir, lightDir).
applyFoilLayer(baseColor, normal, viewDir, lightDir, px) ==
    IF ~px.foilEnabled THEN baseColor
    ELSE IF px.foilMaskSample < One \div 100 THEN baseColor
    ELSE VAdd(VMix(baseColor, foilColor, Quot(px.foilMaskSample * px.foilIntensity, One)),
              VScale(VScale(Vec3(One),
                            Quot(FoilSpecular(normal, viewDir, lightDir) * px.foilMaskSample,
                                 One)),
                     (3 * One) \div 10))

\* The clearcoat tint of the UV gloss modules, vec3(0.95, 0.97, 1.0).
clearcoatColor == <<(95 * One) \div 100, (97 * One) \div 100, One>>

\* fresnel of the UV gloss module: pow(1 - max(dot(viewDir, normal), 0), 2).
Fresnel(normal, viewDir) == pow(One - Max0(dot(viewDir, normal)), 2)

\* clearcoatFactor = mask * uvGlossiness * (0.1 + fresnel * 0.9).
ClearcoatFactor(normal, viewDir, px) ==
    Quot(Quot(px.uvMaskSample * px.uvGlossiness, One) *
         (One \div 10 + Quot(Fresnel(normal, viewDir) * ((9 * One) \div 10), One)), One)

\* The highlight the UV gloss module adds:
\* vec3(1.0) * pow(max(dot(lightDir, reflect(-viewDir, normal)), 0), 64) * mask * uvGlossiness * 0.5.
UVSpecular(normal, viewDir, lightDir, px) ==
    VScale(VScale(VScale(VScale(Vec3(One),
                                pow(Max0(dot(lightDir, reflect(VNeg(viewDir), normal))), 64)),
                         px.uvMaskSample),
                  px.uvGlossiness),
           One \div 2)

\* applyUVLayer(baseColor, uv, normal, viewDir, lightDir): the colour is mixed
\* toward the tint by clearcoatFactor * 0.3.
applyUVLayer(baseColor, normal, viewDir, lightDir, px) ==
    IF ~px.uvEnabled THEN baseColor
    ELSE IF px.uvMaskSample < One \div 100 THEN baseColor
    ELSE VAdd(VMix(baseColor, clearcoatColor,
                   Quot(ClearcoatFactor(normal, viewDir, px) * ((3 * One) \div 10), One)),
              UVSpecular(normal, viewDir, lightDir, px))

\* applyUVLayer(baseColor, uv, mask, gloss) of uvLayerMock.glsl: no uvEnabled
\* test, and the weight is m * gloss * 0.3.
applyUVLayerMask(baseColor, m, gloss) ==
    IF m < One \div 100 THEN baseColor
    ELSE VMix(baseColor, clearcoatColor,
              Quot(Quot(m * gloss, One) * ((3 * One) \div 10), One))

\* applyEmbossLayer(baseColor, uv, embossMap, strength), the colour module:
\* clamp(baseColor + vec3((height - 0.5) * strength * 0.3), 0, 1).
applyEmbossLayerColor(baseColor, embossHeight, strength) ==
    IF embossHeight < One \div 100 THEN baseColor
    ELSE Clamp01(VAdd(baseColor,
                      Vec3(Quot(Quot((embossHeight - One \div 2) * strength, One) *
                                ((3 * One) \div 10), One))))

\* applyFoilLayer(color, uv, foilMask) as the earlier main calls it: blend
\* toward the metallic colour by the mask, where the mask is at least 0.01.
applyFoilLayerMask(baseColor, mask) ==
    IF mask < One \div 100 THEN baseColor
    ELSE VMix(baseColor, foilColor, mask)

\* color *= 0.5 + 0.5 * max(dot(normal, lightDir), 0).
BasicLighting(color, normal, lightDir) ==
    VScale(color, One \div 2 + Quot((One \div 2) * Max0(dot(normal, lightDir)), One))

(* ------------------------------- state -------------------------------- *)

VARIABLES
    harness,       \* TestHarness: width, height, thickness, cornerRadius
    width,         \* CardGeometry.width
    height,        \* CardGeometry.height
    thickness,     \* CardGeometry.thickness
    cornerRadius,  \* CardGeometry.cornerRadius
    geometry,      \* CardGeometry._geometry: the BufferGeometry object it holds
    nextId,        \* BufferGeometry objects allocated so far
    disposed,      \* BufferGeometry objects dispose() was called on
    attributes,    \* position, normal, uv and index of _geometry
    meshGeometry,  \* cardMesh.geometry: the object the mesh in the scene draws
    lastError,     \* the error the last constructor / updateDimensions call raised
    segments,      \* CardGeometry.cornerSegments
    material,      \* the uniforms of the ShaderMaterial
    call,          \* the last MaterialPipeline call: its name and its options
    frag,          \* the fragment being shaded: inputs, position in main, values
    pipeline,      \* the MaterialPipeline object, its material and the layer toggles
    engine,        \* the EngineController, its frame loop and the window
    resources,     \* the ResourceManager, its loads and the textures delivered
    boot           \* the initialization of the page: its position and what it bound

vars == <<harness, width, height, thickness, cornerRadius, geometry, nextId,
          disposed, attributes, meshGeometry, lastError, segments, material, call, frag,
          pipeline, engine, resources, boot>>

\* The variables of the card geometry and its host.
geometryVars == <<harness, width, height, thickness, cornerRadius, geometry, nextId,
                  disposed, attributes, meshGeometry, lastError, segments>>

\* The variables of the material and of the fragment program.
shadingVars == <<material, call, frag>>

\* The variables of the pipeline object, the engine, the resources and the page.
hostVars == <<pipeline, engine, resources, boot>>

\* The value of a variable whose component a specification leaves out.
Absent == "absent"

\* The value of the variable of an object a specification leaves out.
Unused == [unused |-> TRUE]

\* A specification of the geometry, the material or the shader leaves the
\* pipeline object, the engine, the resources and the page out.
HostAbsent ==
    pipeline = Unused /\ engine = Unused /\ resources = Unused /\ boot = Unused

\* A specification of the geometry leaves the material and the shader out.
ShadingAbsent == material = Absent /\ call = Absent /\ frag = Absent

\* A specification of the material or the shader leaves the geometry out.
GeometryAbsent ==
    /\ harness = Absent /\ width = Absent /\ height = Absent /\ thickness = Absent
    /\ cornerRadius = Absent /\ geometry = Absent /\ nextId = Absent
    /\ disposed = Absent /\ attributes = Absent /\ meshGeometry = Absent
    /\ lastError = Absent /\ segments = Absent

\* Rebuild with the four arrays kept across calls instead of declared afresh in
\* buildGeometry: every build appends to what the last one left.
RebuildAppending(w, h, t, r) ==
    /\ disposed' = disposed \cup {geometry}
    /\ geometry' = nextId
    /\ nextId' = nextId + 1
    /\ attributes' =
          LET built == buildGeometry(w, h, t, r)
          IN  [positions |-> attributes.positions \o built.positions,
               normals   |-> attributes.normals \o built.normals,
               uvs       |-> attributes.uvs \o built.uvs,
               indices   |-> attributes.indices \o built.indices]

\* CardGeometry.buildGeometry on the fields as just assigned.
Rebuild(w, h, t, r) ==
    /\ disposed' = disposed \cup {geometry}
    /\ geometry' = nextId
    /\ nextId' = nextId + 1
    /\ attributes' = buildGeometry(w, h, t, r)

\* updateDimensions refusing a corner radius that is not strictly below half the
\* shorter side: the call raises and leaves the object as it was.
updateDimensionsStrictRadius(w, h, t, r) ==
    IF 2 * r >= w \/ 2 * r >= h
    THEN /\ lastError' = "InvalidSpec"
         /\ UNCHANGED <<width, height, thickness, cornerRadius, geometry, nextId,
                        disposed, attributes>>
    ELSE /\ width' = w
         /\ height' = h
         /\ thickness' = t
         /\ cornerRadius' = r
         /\ Rebuild(w, h, t, r)
         /\ lastError' = "none"

\* CardGeometry.updateDimensions.
updateDimensions(w, h, t, r) ==
    /\ width' = w
    /\ height' = h
    /\ thickness' = t
    /\ cornerRadius' = r
    /\ Rebuild(w, h, t, r)
    /\ lastError' = "none"

\* TestHarness.updateDimensions with the harness fields as just assigned.
HarnessUpdate(h2) ==
    /\ nextId < 2 + MaxRebuilds
    /\ harness' = h2
    /\ updateDimensions(h2.width, h2.height, h2.thickness, h2.cornerRadius)
    /\ UNCHANGED <<meshGeometry, segments>>
    /\ UNCHANGED shadingVars
    /\ UNCHANGED hostVars

\* new CardGeometry(options) and new THREE.Mesh(cardGeometry.geometry, material):
\* the constructor allocates object 0, buildGeometry disposes it and allocates 1.
\* The harness starts from its default fields, a valid spec (88.9 x 50.8 x 5.64,
\* radius 5); here that is any valid spec of the bounded lengths.
Init ==
    /\ harness \in [width : Lengths, height : Lengths,
                    thickness : Thicknesses, cornerRadius : Lengths]
    /\ ValidSpec(harness.width, harness.height, harness.thickness, harness.cornerRadius)
    /\ width = harness.width
    /\ height = harness.height
    /\ thickness = harness.thickness
    /\ cornerRadius = harness.cornerRadius
    /\ geometry = 1
    /\ nextId = 2
    /\ disposed = {0}
    /\ attributes = buildGeometry(harness.width, harness.height,
                                  harness.thickness, harness.cornerRadius)
    /\ meshGeometry = 1
    /\ lastError = "none"
    /\ segments = cornerSegments
    /\ ShadingAbsent
    /\ HostAbsent

setCardWidth == \E v \in Lengths : HarnessUpdate([harness EXCEPT !.width = v])

setCardHeight == \E v \in Lengths : HarnessUpdate([harness EXCEPT !.height = v])

setCardThickness == \E v \in Thicknesses : HarnessUpdate([harness EXCEPT !.thickness = v])

setCardCornerRadius == \E v \in Lengths : HarnessUpdate([harness EXCEPT !.cornerRadius = v])

Next ==
    \/ setCardWidth
    \/ setCardHeight
    \/ setCardThickness
    \/ setCardCornerRadius

Spec == Init /\ [][Next]_vars

(* ----------- the constructor-arguments class and its host ------------- *)

\* updateDimensions of the constructor-arguments class: the fields are stored
\* and buildGeometry sets new attributes on the same BufferGeometry.
ArgsUpdateDimensions(w, h, t, r) ==
    /\ width' = w
    /\ height' = h
    /\ thickness' = t
    /\ cornerRadius' = r
    /\ attributes' = ArgsBuildGeometry(w, h, t, r, segments)
    /\ lastError' = "none"
    /\ UNCHANGED <<geometry, nextId, disposed, segments>>

\* TestHarness.updateDimensions of the configurator page, with the harness
\* fields as just assigned by a slider handler.
SliderUpdate(h2) ==
    /\ harness' = h2
    /\ ArgsUpdateDimensions(h2.width, h2.height, h2.thickness, h2.cornerRadius)
    /\ UNCHANGED meshGeometry
    /\ UNCHANGED shadingVars
    /\ UNCHANGED hostVars

\* new CardGeometry(width, height, thickness, cornerRadius, cornerSegments) and
\* the mesh made of its one BufferGeometry, object 0.  main.ts passes a valid
\* spec and leaves cornerSegments to its default; the constructor takes any.
ArgsInit ==
    /\ harness \in [width : Lengths, height : Lengths,
                    thickness : Thicknesses, cornerRadius : Lengths]
    /\ ValidSpec(harness.width, harness.height, harness.thickness, harness.cornerRadius)
    /\ segments \in SegmentChoices
    /\ width = harness.width
    /\ height = harness.height
    /\ thickness = harness.thickness
    /\ cornerRadius = harness.cornerRadius
    /\ geometry = 0
    /\ nextId = 1
    /\ disposed = {}
    /\ attributes = ArgsBuildGeometry(harness.width, harness.height, harness.thickness,
                                      harness.cornerRadius, segments)
    /\ meshGeometry = 0
    /\ lastError = "none"
    /\ ShadingAbsent
    /\ HostAbsent

widthSliderInput == \E v \in Lengths : SliderUpdate([harness EXCEPT !.width = v])

heightSliderInput == \E v \in Lengths : SliderUpdate([harness EXCEPT !.height = v])

thicknessSliderInput == \E v \in Thicknesses : SliderUpdate([harness EXCEPT !.thickness = v])

cornerRadiusSliderInput == \E v \in Lengths : SliderUpdate([harness EXCEPT !.cornerRadius = v])

ArgsNext ==
    \/ widthSliderInput
    \/ heightSliderInput
    \/ thicknessSliderInput
    \/ cornerRadiusSliderInput

SpecArgs == ArgsInit /\ [][ArgsNext]_vars

(* ------------------------- the material's host ------------------------ *)

\* MaterialPipeline.createCardMaterial(options): the host creates the material
\* with any of the four textures given or left out.
MaterialInit ==
    /\ GeometryAbsent
    /\ HostAbsent
    /\ call \in [name : {"createCardMaterial"}, options : OptionObjects]
    /\ material = createCardMaterial(call.options)
    /\ frag = Absent

\* MaterialPipeline.updateLayerTextures(material, options).
UpdateLayerTextures ==
    \E options \in OptionObjects :
        /\ material' = updateLayerTextures(material, options)
        /\ call' = [name |-> "updateLayerTextures", options |-> options]
        /\ UNCHANGED frag
        /\ UNCHANGED geometryVars
        /\ UNCHANGED hostVars

MaterialNext == UpdateLayerTextures

SpecMaterial == MaterialInit /\ [][MaterialNext]_vars

(* ------------------------- the fragment program ----------------------- *)
(* Three fragment mains are in the source: the complete shader            *)
(* ("fragment"), the one MaterialPipeline.createMaterial assembles         *)
(* ("createMaterial", the same statements without the base colour          *)
(* fallback) and an earlier one ("earlier").  A fragment runs the          *)
(* statements of its main in order; frag.pc is the statement it is at.     *)

Programs == {"fragment", "createMaterial", "earlier"}

\* The statements of main, in the order written.
StagesOf(program) ==
    IF program = "earlier"
    THEN <<"base", "foil", "uv", "emboss", "output">>
    ELSE <<"base", "emboss", "foil", "uv", "lighting", "output">>

\* A value not assigned yet.
Unset == <<>>

\* texture2D(uArtworkMap, vUv).rgb at the fragment: black, near black (length
\* below 0.01) and a colour.
ArtworkSamples == {<<0, 0, 0>>,
                   <<One \div 200, One \div 200, One \div 200>>,
                   <<(8 * One) \div 10, (6 * One) \div 10, (4 * One) \div 10>>}

\* vNormal: the front and the back face of the card.
Normals == {<<0, 0, One>>, <<0, 0, -One>>}

\* cameraPosition - vWorldPosition.
ToCamera == {<<0, 0, 2 * One>>, <<(3 * One) \div 2, 0, 2 * One>>}

\* lightDirection: the (0.5, 0.5, 0.5) the material starts with, and +Z.
LightDirections == {<<One \div 2, One \div 2, One \div 2>>, <<0, 0, One>>}

\* texture2D(foilMask, vUv).r.
FoilSamples == {0, One \div 2}

\* texture2D(uvMask, vUv).r: none, just below the 0.01 threshold, half.
UvSamples == {0, One \div 100 - 1, One \div 2}

\* texture2D(embossHeightMap, vUv).r.
Heights == {0, One \div 2}

\* The height map left, right, below and above the fragment: flat, or rising
\* to the right.
Neighbours == {<<One \div 2, One \div 2, One \div 2, One \div 2>>,
               <<0, One, One \div 2, One \div 2>>}

EmbossIntensities == {One \div 2, One}

\* What a fragment reads.  The uniforms not drawn keep the value
\* createCardMaterial gives them.
Pixels ==
    { [artwork |-> a, vNormal |-> n, toCamera |-> c, lightDirection |-> l,
       foilEnabled |-> t[1], uvEnabled |-> t[2], embossEnabled |-> t[3],
       foilMaskSample |-> fm, uvMaskSample |-> um, height |-> eh,
       heightL |-> nb[1], heightR |-> nb[2], heightD |-> nb[3], heightU |-> nb[4],
       embossIntensity |-> ei,
       foilIntensity   |-> createCardMaterial([k \in OptionKeys |-> Undefined]).foilIntensity,
       uvGlossiness    |-> createCardMaterial([k \in OptionKeys |-> Undefined]).uvGlossiness,
       uBaseColor      |-> createCardMaterial([k \in OptionKeys |-> Undefined]).uBaseColor,
       uGloss          |-> createCardMaterial([k \in OptionKeys |-> Undefined]).uGloss,
       uEmbossStrength |-> createCardMaterial([k \in OptionKeys |-> Undefined]).uEmbossStrength] :
      a \in ArtworkSamples, n \in Normals, c \in ToCamera, l \in LightDirections,
      t \in BOOLEAN \X BOOLEAN \X BOOLEAN,
      fm \in FoilSamples, um \in UvSamples, eh \in Heights, nb \in Neighbours,
      ei \in EmbossIntensities }

\* A fragment of a program, before main runs.
FragmentInit ==
    /\ GeometryAbsent
    /\ HostAbsent
    /\ material = Absent
    /\ call = Absent
    /\ \E program \in Programs, px \in Pixels :
          frag = [program |-> program, px |-> px, pc |-> 1,
                  baseColor |-> Unset, viewDir |-> Unset, lightDir |-> Unset,
                  finalNormal |-> Unset, color |-> Unset, fragColor |-> Unset,
                  log |-> <<>>]

\* main is at the statement `stage`.
At(stage) ==
    /\ frag.pc <= Len(StagesOf(frag.program))
    /\ StagesOf(frag.program)[frag.pc] = stage

\* The record a stage leaves in the log: what it was given and what it returned.
Ran(stage, normalIn, colorIn, out) ==
    [stage |-> stage, normalIn |-> normalIn, colorIn |-> colorIn, out |-> out]

\* The base colour and the directions.  The complete shader replaces a base
\* colour of length below 0.01 by uBaseColor; the earlier main computes no
\* directions and starts color from the base colour.
SampleBase ==
    /\ At("base")
    /\ frag' = [frag EXCEPT
          !.pc = @ + 1,
          !.baseColor = IF frag.program = "fragment" /\ length(frag.px.artwork) < One \div 100
                        THEN frag.px.uBaseColor ELSE frag.px.artwork,
          !.color = IF frag.program = "earlier" THEN frag.px.artwork ELSE Unset,
          !.viewDir = IF frag.program = "earlier" THEN Unset
                      ELSE normalize(frag.px.toCamera),
          !.lightDir = IF frag.program = "earlier" THEN Unset
                       ELSE normalize(frag.px.lightDirection)]
    /\ UNCHANGED <<material, call>>
    /\ UNCHANGED geometryVars
    /\ UNCHANGED hostVars

\* finalNormal = applyEmbossLayer(vNormal, vUv); in the earlier main
\* color = applyEmbossLayer(color, vUv, embossMap, uEmbossStrength).
EmbossStage ==
    /\ At("emboss")
    /\ frag' = IF frag.program = "earlier"
               THEN [frag EXCEPT
                       !.pc = @ + 1,
                       !.color = applyEmbossLayerColor(frag.color, frag.px.height,
                                                       frag.px.uEmbossStrength),
                       !.log = Append(@, Ran("emboss", Unset, frag.color,
                                   applyEmbossLayerColor(frag.color, frag.px.height,
                                                         frag.px.uEmbossStrength)))]
               ELSE [frag EXCEPT
                       !.pc = @ + 1,
                       !.finalNormal = applyEmbossLayer(frag.px.vNormal, frag.px),
                       !.log = Append(@, Ran("emboss", frag.px.vNormal, Unset,
                                   applyEmbossLayer(frag.px.vNormal, frag.px)))]
    /\ UNCHANGED <<material, call>>
    /\ UNCHANGED geometryVars
    /\ UNCHANGED hostVars

\* color = applyFoilLayer(baseColor, vUv, finalNormal, viewDir, lightDir); in
\* the earlier main color = applyFoilLayer(color, vUv, foilMask).
FoilStage ==
    /\ At("foil")
    /\ frag' = IF frag.program = "earlier"
               THEN [frag EXCEPT
                       !.pc = @ + 1,
                       !.color = applyFoilLayerMask(frag.color, frag.px.foilMaskSample),
                       !.log = Append(@, Ran("foil", Unset, frag.color,
                                   applyFoilLayerMask(frag.color, frag.px.foilMaskSample)))]
               ELSE [frag EXCEPT
                       !.pc = @ + 1,
                       !.color = applyFoilLayer(frag.baseColor, frag.finalNormal,
                                                frag.viewDir, frag.lightDir, frag.px),
                       !.log = Append(@, Ran("foil", frag.finalNormal, frag.baseColor,
                                   applyFoilLayer(frag.baseColor, frag.finalNormal,
                                                  frag.viewDir, frag.lightDir, frag.px)))]
    /\ UNCHANGED <<material, call>>
    /\ UNCHANGED geometryVars
    /\ UNCHANGED hostVars

\* color = applyUVLayer(color, vUv, finalNormal, viewDir, lightDir); in the
\* earlier main color = applyUVLayer(color, vUv, uvMask, uGloss).
UVStage ==
    /\ At("uv")
    /\ frag' = IF frag.program = "earlier"
               THEN [frag EXCEPT
                       !.pc = @ + 1,
                       !.color = applyUVLayerMask(frag.color, frag.px.uvMaskSample,
                                                  frag.px.uGloss),
                       !.log = Append(@, Ran("uv", Unset, frag.color,
                                   applyUVLayerMask(frag.color, frag.px.uvMaskSample,
                                                    frag.px.uGloss)))]
               ELSE [frag EXCEPT
                       !.pc = @ + 1,
                       !.color = applyUVLayer(frag.color, frag.finalNormal,
                                              frag.viewDir, frag.lightDir, frag.px),
                       !.log = Append(@, Ran("uv", frag.finalNormal, frag.color,
                                   applyUVLayer(frag.color, frag.finalNormal,
                                                frag.viewDir, frag.lightDir, frag.px)))]
    /\ UNCHANGED <<material, call>>
    /\ UNCHANGED geometryVars
    /\ UNCHANGED hostVars

\* float NdotL = max(dot(finalNormal, lightDir), 0.0); color *= 0.5 + 0.5 * NdotL.
LightingStage ==
    /\ At("lighting")
    /\ frag' = [frag EXCEPT
          !.pc = @ + 1,
          !.color = BasicLighting(frag.color, frag.finalNormal, frag.lightDir),
          !.log = Append(@, Ran("lighting", frag.finalNormal, frag.color,
                      BasicLighting(frag.color, frag.finalNormal, frag.lightDir)))]
    /\ UNCHANGED <<material, call>>
    /\ UNCHANGED geometryVars
    /\ UNCHANGED hostVars

\* gl_FragColor = vec4(color, 1.0).
WriteFragColor ==
    /\ At("output")
    /\ frag' = [frag EXCEPT !.pc = @ + 1, !.fragColor = frag.color]
    /\ UNCHANGED <<material, call>>
    /\ UNCHANGED geometryVars
    /\ UNCHANGED hostVars

FragmentNext ==
    \/ SampleBase
    \/ EmbossStage
    \/ FoilStage
    \/ UVStage
    \/ LightingStage
    \/ WriteFragColor

SpecFragment == FragmentInit /\ [][FragmentNext]_vars

(* ------------ the MaterialPipeline object and the layer toggles ------- *)
(* A JavaScript number is a quotient: Finite(v) with v in thousandths, NaN  *)
(* (0 / 0), Infinity (1 / 0) or -Infinity (-1 / 0).                         *)

\* The pages that wire the layer toggles: the configurator page with global
\* controls that keep the state on the buttons (TestHarness.ts), the one whose
\* global controls write the uniforms (part_005), and the one that calls the
\* MaterialPipeline object from the button handlers (part_006).
ToggleHarnesses == {"TestHarness.ts", "part_005", "part_006"}

\* The three print layers.
Layers == {"foil", "uv", "emboss"}

\* The enabled uniform (and field) of a layer.
EnabledUniform(layer) ==
    CASE layer = "foil" -> "foilEnabled"
      [] layer = "uv"   -> "uvEnabled"
      [] OTHER          -> "embossEnabled"

\* The intensity uniform (and field) of a layer.
IntensityUniform(layer) ==
    CASE layer = "foil" -> "foilIntensity"
      [] layer = "uv"   -> "uvGlossiness"
      [] OTHER          -> "embossIntensity"

\* Infinity.
Infinity == Ratio(1, 0)

\* The quotient is NaN.
IsNaN(q) == q.den = 0 /\ q.num = 0

\* a < b on numbers that are not NaN.
Less(a, b) ==
    CASE a.den = 0 /\ b.den = 0 -> a.num < b.num
      [] a.den = 0              -> a.num < 0
      [] b.den = 0              -> b.num > 0
      [] OTHER                  -> a.num * b.den < b.num * a.den

\* Math.min(a, b): NaN if either argument is NaN.
MathMin(a, b) == IF IsNaN(a) \/ IsNaN(b) THEN NaN ELSE IF Less(b, a) THEN b ELSE a

\* Math.max(a, b): NaN if either argument is NaN.
MathMax(a, b) == IF IsNaN(a) \/ IsNaN(b) THEN NaN ELSE IF Less(a, b) THEN b ELSE a

\* Math.max(0, Math.min(1, intensity)).
ClampIntensity(intensity) == MathMax(Finite(0), MathMin(Finite(One), intensity))

\* The numbers a caller passes as an intensity: -0.5, 0.3, 1.5, Infinity, NaN.
IntensityArguments ==
    {Finite(-(One \div 2)), Finite((3 * One) \div 10), Finite((3 * One) \div 2),
     Infinity, NaN}

\* The fields of a new MaterialPipeline object: the layer states and intensities.
NewPipelineObject ==
    [foilEnabled     |-> FALSE,
     uvEnabled       |-> FALSE,
     embossEnabled   |-> FALSE,
     foilIntensity   |-> Finite(One),
     uvGlossiness    |-> Finite(One),
     embossIntensity |-> Finite(One)]

\* A page without a MaterialPipeline object: its material comes from the
\* static createCardMaterial.
NoObject == [none |-> TRUE]

\* The four textures the page passes, each loaded from its file.
PageTextures ==
    [artwork   |-> LoadedTexture("/textures/artwork.jpg"),
     foilMask  |-> LoadedTexture("/masks/foil.png"),
     uvMask    |-> LoadedTexture("/masks/uv.png"),
     embossMap |-> LoadedTexture("/masks/emboss.png")]

\* createMaterial of the MaterialPipeline object: the uniforms of the
\* ShaderMaterial it returns, read from the fields.
createMaterial(object, textures) ==
    [artworkTexture  |-> textures.artwork,
     foilMask        |-> textures.foilMask,
     uvMask          |-> textures.uvMask,
     embossHeightMap |-> textures.embossMap,
     foilEnabled     |-> object.foilEnabled,
     uvEnabled       |-> object.uvEnabled,
     embossEnabled   |-> object.embossEnabled,
     foilIntensity   |-> object.foilIntensity,
     uvGlossiness    |-> object.uvGlossiness,
     embossIntensity |-> object.embossIntensity,
     lightDirection  |-> <<One \div 2, One \div 2, One \div 2>>,
     cameraPosition  |-> <<0, 0, 150 * One>>]

\* reloadShaders: the uniforms of the material it installs, createMaterial()
\* followed by the six copies from the fields.
ReloadedUniforms(object, textures) ==
    [createMaterial(object, textures) EXCEPT
        !.foilEnabled     = object.foilEnabled,
        !.uvEnabled       = object.uvEnabled,
        !.embossEnabled   = object.embossEnabled,
        !.foilIntensity   = object.foilIntensity,
        !.uvGlossiness    = object.uvGlossiness,
        !.embossIntensity = object.embossIntensity]

\* The page as initialized: the material (object 1, the only ShaderMaterial
\* made so far), no toggle button active, no frame shaded yet.
NewPipeline(h) ==
    [harness   |-> h,
     object    |-> IF h = "part_006" THEN NewPipelineObject ELSE NoObject,
     uniforms  |-> IF h = "part_006" THEN createMaterial(NewPipelineObject, PageTextures)
                   ELSE createCardMaterial(PageTextures),
     classList |-> [layer \in Layers |-> FALSE],
     material  |-> 1,
     created   |-> 1,
     released  |-> {},
     frame     |-> [layer \in Layers |-> FALSE],
     fresh     |-> FALSE,
     last      |-> [name |-> "new"]]

\* toggleFoil / toggleUV / toggleEmboss of the MaterialPipeline object.
ObjectToggle(p, layer, enabled) ==
    [p EXCEPT !.object[EnabledUniform(layer)] = enabled,
              !.uniforms[EnabledUniform(layer)] = enabled]

\* window.toggleFoil / toggleUV / toggleEmboss (enabled?): the arguments.
ToggleArguments == {"true", "false", "undefined"}

\* window.toggleX(enabled?) as the page defines it.  TestHarness.ts takes the
\* flip from the button and writes the button; part_005 takes the flip from
\* the uniform and writes the uniform and the button.
GlobalToggle(p, layer, enabled) ==
    IF p.harness = "TestHarness.ts"
    THEN [p EXCEPT !.classList[layer] =
             IF enabled # "undefined" THEN enabled = "true" ELSE ~p.classList[layer]]
    ELSE [p EXCEPT !.uniforms[EnabledUniform(layer)] =
                       IF enabled # "undefined" THEN enabled = "true"
                       ELSE ~p.uniforms[EnabledUniform(layer)],
                   !.classList[layer] =
                       IF enabled # "undefined" THEN enabled = "true"
                       ELSE ~p.uniforms[EnabledUniform(layer)]]

\* The click handler of a toggle button: window.toggleX() with no argument,
\* or, on the page with the MaterialPipeline object, toggleX(!isActive) and
\* classList.toggle('active').
ToggleClick(p, layer) ==
    IF p.harness = "part_006"
    THEN [ObjectToggle(p, layer, ~p.classList[layer]) EXCEPT
             !.classList[layer] = ~p.classList[layer]]
    ELSE GlobalToggle(p, layer, "undefined")

\* A toggle or a setter has run: the last frame shaded is no longer the latest,
\* and the call is kept as the last one made.
Touched(p, called) == [p EXCEPT !.fresh = FALSE, !.last = called]

\* window.toggleFoil, toggleUV or toggleEmboss is called.
CallGlobalToggle(layer) ==
    /\ pipeline.harness \in {"TestHarness.ts", "part_005"}
    /\ \E enabled \in ToggleArguments :
          pipeline' = Touched(GlobalToggle(pipeline, layer, enabled),
                              [name |-> "toggle", layer |-> layer, enabled |-> enabled])
    /\ UNCHANGED <<geometryVars, shadingVars, engine, resources, boot>>

\* A toggle button is clicked.
ClickToggle(layer) ==
    /\ pipeline' = Touched(ToggleClick(pipeline, layer), [name |-> "click", layer |-> layer])
    /\ UNCHANGED <<geometryVars, shadingVars, engine, resources, boot>>

\* setFoilIntensity / setUVGlossiness / setEmbossIntensity: the field is the
\* clamped argument and the uniform is the field.
SetIntensity(layer) ==
    /\ pipeline.harness = "part_006"
    /\ \E intensity \in IntensityArguments :
          pipeline' =
              Touched([pipeline EXCEPT
                          !.object[IntensityUniform(layer)] = ClampIntensity(intensity),
                          !.uniforms[IntensityUniform(layer)] = ClampIntensity(intensity)],
                      [name |-> "set", layer |-> layer, intensity |-> intensity])
    /\ UNCHANGED <<geometryVars, shadingVars, engine, resources, boot>>

\* reloadShaders: a new material with the current values, the old one disposed.
reloadShaders ==
    /\ pipeline.harness = "part_006"
    /\ pipeline.created < 1 + MaxReloads
    /\ pipeline' =
          [pipeline EXCEPT
              !.material = pipeline.created + 1,
              !.created  = pipeline.created + 1,
              !.uniforms = ReloadedUniforms(pipeline.object, PageTextures),
              !.released = pipeline.released \cup {pipeline.material},
              !.fresh    = FALSE,
              !.last     = [name |-> "reloadShaders"]]
    /\ UNCHANGED <<geometryVars, shadingVars, engine, resources, boot>>

\* MaterialPipeline.dispose: this.material.dispose().
MaterialPipelineDisposed(p) ==
    [p EXCEPT !.released = p.released \cup {p.material}, !.last = [name |-> "dispose"]]

\* materialPipeline.dispose() is called.
MaterialPipelineDispose ==
    /\ pipeline.harness = "part_006"
    /\ pipeline' = MaterialPipelineDisposed(pipeline)
    /\ UNCHANGED <<geometryVars, shadingVars, engine, resources, boot>>

\* A frame is shaded: the fragment program reads the three enabled uniforms.
ShadeFrame ==
    /\ pipeline' =
          [pipeline EXCEPT
              !.frame = [layer \in Layers |-> pipeline.uniforms[EnabledUniform(layer)]],
              !.fresh = TRUE,
              !.last  = [name |-> "frame"]]
    /\ UNCHANGED <<geometryVars, shadingVars, engine, resources, boot>>

PipelineInit ==
    /\ GeometryAbsent
    /\ ShadingAbsent
    /\ pipeline \in {NewPipeline(h) : h \in ToggleHarnesses}
    /\ engine = Unused
    /\ resources = Unused
    /\ boot = Unused

PipelineNext ==
    \/ \E layer \in Layers : CallGlobalToggle(layer)
    \/ \E layer \in Layers : ClickToggle(layer)
    \/ \E layer \in Layers : SetIntensity(layer)
    \/ reloadShaders
    \/ MaterialPipelineDispose
    \/ ShadeFrame

SpecPipeline == PipelineInit /\ [][PipelineNext]_vars

(* ----------------- the EngineController and its frame loop ------------ *)
(* The window keeps the pending animation-frame callbacks in request order  *)
(* and the resize listeners; a function object is named by where it was     *)
(* made.  A handle is the smallest number that is not pending, not held in  *)
(* animationId and not of a callback of the running frame: the controller   *)
(* keeps no other handle.                                                   *)

\* The pages that drive the engine: main.ts runs a second animation-frame
\* chain that refreshes the uniforms (as setupUpdateLoop of part_005 does);
\* setupUpdateLoop of TestHarness.ts does nothing.
EngineHosts == {"main.ts", "TestHarness.ts"}

\* animationId === null.
Null == 0

\* The file of the HDR environment.
HdrPath == "/hdr/environment.hdr"

\* The file a page loads for a texture slot.
AssetPath(key) ==
    CASE key = "artwork"  -> "/textures/artwork.jpg"
      [] key = "foilMask" -> "/masks/foil.png"
      [] key = "uvMask"   -> "/masks/uv.png"
      [] OTHER            -> "/masks/emboss.png"

\* The camera's world position after k quarter turns of the orbit controls
\* around the target, from (0, 0, 150).
CameraAt(k) ==
    CASE k = 0 -> <<0, 0, 150 * One>>
      [] k = 1 -> <<150 * One, 0, 0>>
      [] k = 2 -> <<0, 0, -(150 * One)>>
      [] OTHER -> <<-(150 * One), 0, 0>>

\* new EngineController(canvas) and the material's cameraPosition uniform as
\* the material is made.
NewEngine(h) ==
    [host            |-> h,
     isInitialized   |-> FALSE,
     animationId     |-> Null,
     pending         |-> <<>>,
     frame           |-> {},
     listeners       |-> <<>>,
     controls        |-> "null",
     lightsInScene   |-> FALSE,
     rendererLive    |-> TRUE,
     background      |-> NoObject,
     orbit           |-> 0,
     sphericalDelta  |-> 0,
     cameraPosition  |-> <<0, 0, 150 * One>>,
     uniformLoop     |-> FALSE,
     rendered        |-> <<>>,
     stopReturned    |-> FALSE,
     ranAfterStop    |-> FALSE,
     usedReleased    |-> FALSE]

\* The handles a new request must differ from.
HandlesInUse(e) ==
    {e.animationId} \cup e.frame \cup {e.pending[i].handle : i \in 1..Len(e.pending)}

\* The handle requestAnimationFrame returns next.
NewHandle(e) ==
    CHOOSE h \in 1..(Len(e.pending) + Cardinality(e.frame) + 2) :
        /\ h \notin HandlesInUse(e)
        /\ \A g \in 1..(h - 1) : g \in HandlesInUse(e)

\* requestAnimationFrame(callback).
requestAnimationFrame(e, callback) ==
    [e EXCEPT !.pending = Append(e.pending, [handle |-> NewHandle(e), callback |-> callback])]

\* cancelAnimationFrame(handle).
cancelAnimationFrame(e, handle) ==
    [e EXCEPT !.pending = SelectSeq(e.pending, LAMBDA c : c.handle # handle)]

\* EngineController.update: controls.update() applies the rotation the
\* pointer handlers left, then renderer.render reads the uniforms.
update(e) ==
    IF ~e.isInitialized THEN e
    ELSE [e EXCEPT
            !.orbit          = IF e.controls # "null" THEN e.orbit + e.sphericalDelta
                               ELSE e.orbit,
            !.sphericalDelta = IF e.controls # "null" THEN 0 ELSE e.sphericalDelta,
            !.rendered       =
                <<[cameraPosition |-> e.cameraPosition,
                   worldPosition  |->
                       CameraAt(IF e.controls # "null" THEN e.orbit + e.sphericalDelta
                                ELSE e.orbit)]>>,
            !.ranAfterStop   = e.ranAfterStop \/ e.stopReturned,
            !.usedReleased   = e.usedReleased \/ ~e.rendererLive]

\* animate: this.animationId = requestAnimationFrame(animate); this.update().
animate(e) ==
    update([requestAnimationFrame(e, "animate") EXCEPT !.animationId = NewHandle(e)])

\* start without the animationId !== null test.
startUnguarded(e) == animate([e EXCEPT !.stopReturned = FALSE])

\* EngineController.start.
start(e) ==
    IF e.animationId # Null THEN [e EXCEPT !.stopReturned = FALSE]
    ELSE animate([e EXCEPT !.stopReturned = FALSE])

\* EngineController.stop.
stop(e) ==
    IF e.animationId # Null
    THEN [cancelAnimationFrame(e, e.animationId) EXCEPT
             !.animationId = Null, !.stopReturned = TRUE]
    ELSE [e EXCEPT !.stopReturned = TRUE]

\* EngineController.init(hdrTexture): the renderer is configured, the
\* background is the HDR texture or the fallback colour, the lights and the
\* controls are made and () => this.resize() is added to the window.
init(e, hdrTexture) ==
    IF e.isInitialized THEN e
    ELSE [e EXCEPT
            !.background    = IF hdrTexture # Undefined THEN hdrTexture
                              ELSE [color |-> "0x1a1a1a"],
            !.lightsInScene = TRUE,
            !.orbit         = 0,
            !.controls      = "live",
            !.listeners     = Append(e.listeners, "arrow function of init"),
            !.usedReleased  = e.usedReleased \/ ~e.rendererLive,
            !.isInitialized = TRUE]

\* EngineController.resize.
resize(e) ==
    IF ~e.isInitialized THEN e
    ELSE [e EXCEPT !.usedReleased = e.usedReleased \/ ~e.rendererLive]

\* window.removeEventListener(type, listener): the listeners that are that
\* function object are removed.
removeEventListener(listeners, listener) ==
    SelectSeq(listeners, LAMBDA l : l # listener)

\* dispose releasing nothing: the renderer, the controls and the lights stay.
EngineControllerDisposeNothing(e) == stop(e)

\* EngineController.dispose.
EngineControllerDispose(e) ==
    [stop(e) EXCEPT
        !.controls      = IF e.controls # "null" THEN "disposed" ELSE "null",
        !.lightsInScene = FALSE,
        !.rendererLive  = FALSE,
        !.listeners     = removeEventListener(e.listeners, "arrow function of dispose")]

\* One callback of a frame.  animate is the controller's; uniformUpdateLoop
\* copies the camera's world position to the uniform and requests itself;
\* stop is a page's callback that calls engineController.stop().
RunCallback(e, callback) ==
    CASE callback = "animate" -> animate(e)
      [] callback = "uniformUpdateLoop" ->
            requestAnimationFrame([e EXCEPT !.cameraPosition = CameraAt(e.orbit)],
                                  "uniformUpdateLoop")
      [] OTHER -> stop(e)

RECURSIVE RunFrame(_, _)
\* The window runs the callbacks that were pending when the frame began, in
\* request order, each unless it has been cancelled meanwhile.
RunFrame(e, callbacks) ==
    IF callbacks = <<>> THEN e
    ELSE IF \E i \in 1..Len(e.pending) : e.pending[i].handle = Head(callbacks).handle
         THEN RunFrame(RunCallback(cancelAnimationFrame(e, Head(callbacks).handle),
                                   Head(callbacks).callback),
                       Tail(callbacks))
         ELSE RunFrame(e, Tail(callbacks))

\* What a call of the controller or an event of the window leaves alone.
engineRest == <<geometryVars, shadingVars, pipeline, resources, boot>>

\* engineController.init(hdrTexture || undefined).
CallInit ==
    /\ \E hdrTexture \in {Undefined, LoadedTexture(HdrPath)} :
          engine' = init(engine, hdrTexture)
    /\ UNCHANGED engineRest

\* engineController.start().
CallStart ==
    /\ engine' = start(engine)
    /\ UNCHANGED engineRest

\* engineController.stop().
CallStop ==
    /\ engine' = stop(engine)
    /\ UNCHANGED engineRest

\* engineController.dispose().
CallDispose ==
    /\ engine' = EngineControllerDispose(engine)
    /\ UNCHANGED engineRest

\* uniformUpdateLoop() of main.ts, called once after engineController.start().
StartUniformLoop ==
    /\ engine.host = "main.ts"
    /\ engine.isInitialized
    /\ engine.animationId # Null
    /\ ~engine.uniformLoop
    /\ engine' = RunCallback([engine EXCEPT !.uniformLoop = TRUE], "uniformUpdateLoop")
    /\ UNCHANGED engineRest

\* The page requests a frame callback that stops the engine.
RequestStop ==
    /\ \A i \in 1..Len(engine.pending) : engine.pending[i].callback # "stop"
    /\ engine' = requestAnimationFrame(engine, "stop")
    /\ UNCHANGED engineRest

\* The user drags on the canvas: the orbit controls keep the rotation for
\* their next update.
Drag ==
    /\ engine.controls = "live"
    /\ engine.orbit < MaxOrbit
    /\ engine.sphericalDelta = 0
    /\ engine' = [engine EXCEPT !.sphericalDelta = 1]
    /\ UNCHANGED engineRest

\* The display refreshes.
AnimationFrame ==
    /\ engine.pending # <<>>
    /\ engine' = [RunFrame([engine EXCEPT !.frame = HandlesInUse(engine) \ {Null}],
                           engine.pending)
                     EXCEPT !.frame = {}]
    /\ UNCHANGED engineRest

RECURSIVE Dispatch(_, _)
\* The window calls its resize listeners; each one made by init calls resize().
Dispatch(e, listeners) ==
    IF listeners = <<>> THEN e ELSE Dispatch(resize(e), Tail(listeners))

\* The window is resized.
ResizeEvent ==
    /\ engine' = Dispatch(engine, engine.listeners)
    /\ UNCHANGED engineRest

EngineInit ==
    /\ GeometryAbsent
    /\ ShadingAbsent
    /\ pipeline = Unused
    /\ engine \in {NewEngine(h) : h \in EngineHosts}
    /\ resources = Unused
    /\ boot = Unused

EngineNext ==
    \/ CallInit
    \/ CallStart
    \/ CallStop
    \/ CallDispose
    \/ StartUniformLoop
    \/ RequestStop
    \/ Drag
    \/ AnimationFrame
    \/ ResizeEvent

SpecEngine == EngineInit /\ [][EngineNext]_vars

(* ------------------------- the ResourceManager ------------------------- *)
(* A texture is the object one completed load made: its file and a number   *)
(* that tells it from the textures of other loads.  A call that finds the   *)
(* manager uninitialized waits at `await this.init()` and goes on in a      *)
(* later microtask; a load completes whenever the network answers.          *)

\* The files asked for while the manager is used freely: one loadTexture
\* path and one loadMask path.
Paths == {AssetPath("artwork"), AssetPath("foilMask")}

\* The files of the four texture slots.
TexturePaths == {AssetPath(key) : key \in OptionKeys}

\* The texture the n-th completed load made, from the file at path.
TextureOf(path, n) == [image |-> path, uuid |-> n]

\* The static fields before init(), and the bookkeeping of what was handed
\* out.
NewResources ==
    [isInitialized  |-> FALSE,
     textureLoader  |-> FALSE,
     loadedTextures |-> <<>>,
     awaiting       |-> <<>>,
     loading        |-> [p \in TexturePaths |-> 0],
     stale          |-> [p \in TexturePaths |-> 0],
     loads          |-> 0,
     made           |-> 0,
     delivered      |-> {},
     disposed       |-> {},
     first          |-> <<>>,
     returned       |-> {},
     overlapped     |-> FALSE,
     repopulated    |-> FALSE,
     last           |-> [name |-> "new"]]

\* ResourceManager.init.
ResourceManagerInit(r) ==
    IF r.isInitialized THEN r
    ELSE [r EXCEPT !.textureLoader = TRUE, !.isInitialized = TRUE]

\* loadTexture from its cache test on: the cached texture, the error of a
\* missing loader, or textureLoader.load.  `after` tells a call made after a
\* load of the path succeeded, with no dispose() since.
loadTextureAfterInit(r, path, after) ==
    IF path \in DOMAIN r.loadedTextures
    THEN [r EXCEPT
             !.returned = IF after THEN r.returned \cup {<<path, r.loadedTextures[path]>>}
                          ELSE r.returned,
             !.last     = [name |-> "cached", path |-> path, after |-> after]]
    ELSE IF ~r.textureLoader
    THEN [r EXCEPT !.last = [name |-> "ResourceManager not initialized", path |-> path]]
    ELSE [r EXCEPT
             !.loading    = [r.loading EXCEPT ![path] = r.loading[path] + 1],
             !.loads      = r.loads + 1,
             !.overlapped = r.overlapped \/ r.loading[path] + r.stale[path] > 0,
             !.last       = [name |-> "load", path |-> path, after |-> after]]

\* loadTexture(path), and loadMask(path) that calls it, up to where the call
\* first waits.
loadTexture(r, path) ==
    IF ~r.isInitialized
    THEN [ResourceManagerInit(r) EXCEPT
             !.awaiting = Append(r.awaiting, [path |-> path, after |-> path \in DOMAIN r.first]),
             !.last     = [name |-> "await init", path |-> path]]
    ELSE loadTextureAfterInit(r, path, path \in DOMAIN r.first)

\* The load callback of textureLoader.load: loadedTextures.set(path, texture);
\* resolve(texture).  `old` tells a load that was started before a dispose().
onLoad(r, path, old) ==
    [r EXCEPT
        !.loading        = IF old THEN r.loading
                           ELSE [r.loading EXCEPT ![path] = r.loading[path] - 1],
        !.stale          = IF old THEN [r.stale EXCEPT ![path] = r.stale[path] - 1]
                           ELSE r.stale,
        !.made           = r.made + 1,
        !.loadedTextures =
            [p \in DOMAIN r.loadedTextures \cup {path} |->
                IF p = path THEN TextureOf(path, r.made + 1) ELSE r.loadedTextures[p]],
        !.delivered      = r.delivered \cup {TextureOf(path, r.made + 1)},
        !.first          =
            [p \in DOMAIN r.first \cup {path} |->
                IF p \in DOMAIN r.first THEN r.first[p] ELSE TextureOf(path, r.made + 1)],
        !.repopulated    = r.repopulated \/ old,
        !.last           = [name |-> "resolved", path |-> path,
                            texture |-> TextureOf(path, r.made + 1)]]

\* The error callback of textureLoader.load: reject(error).
onError(r, path, old) ==
    [r EXCEPT
        !.loading = IF old THEN r.loading
                    ELSE [r.loading EXCEPT ![path] = r.loading[path] - 1],
        !.stale   = IF old THEN [r.stale EXCEPT ![path] = r.stale[path] - 1]
                    ELSE r.stale,
        !.last    = [name |-> "rejected", path |-> path, cache |-> r.loadedTextures]]

\* dispose clearing the cache without disposing the textures.
ResourceManagerDisposeClearOnly(r) ==
    [r EXCEPT
        !.loadedTextures = <<>>,
        !.textureLoader  = FALSE,
        !.isInitialized  = FALSE,
        !.stale          = [p \in TexturePaths |-> r.stale[p] + r.loading[p]],
        !.loading        = [p \in TexturePaths |-> 0],
        !.awaiting       = [i \in 1..Len(r.awaiting) |-> [r.awaiting[i] EXCEPT !.after = FALSE]],
        !.first          = <<>>,
        !.returned       = {},
        !.last           = [name |-> "dispose"]]

\* ResourceManager.dispose.
ResourceManagerDispose(r) ==
    [r EXCEPT
        !.disposed       = r.disposed \cup
                           {r.loadedTextures[p] : p \in DOMAIN r.loadedTextures},
        !.loadedTextures = <<>>,
        !.textureLoader  = FALSE,
        !.isInitialized  = FALSE,
        !.stale          = [p \in TexturePaths |-> r.stale[p] + r.loading[p]],
        !.loading        = [p \in TexturePaths |-> 0],
        !.awaiting       = [i \in 1..Len(r.awaiting) |-> [r.awaiting[i] EXCEPT !.after = FALSE]],
        !.first          = <<>>,
        !.returned       = {},
        !.last           = [name |-> "dispose"]]

\* What a step of the manager leaves alone.
resourcesRest == <<geometryVars, shadingVars, pipeline, engine, boot>>

\* ResourceManager.loadTexture(path) or loadMask(path) is called.
CallLoadTexture(path) ==
    /\ resources.loads < MaxLoads
    /\ Len(resources.awaiting) < MaxLoads - resources.loads
    /\ resources' = loadTexture(resources, path)
    /\ UNCHANGED resourcesRest

\* A call goes on after its await this.init().
ResumeLoadTexture ==
    /\ resources.awaiting # <<>>
    /\ resources' = loadTextureAfterInit([resources EXCEPT !.awaiting = Tail(resources.awaiting)],
                                         Head(resources.awaiting).path,
                                         Head(resources.awaiting).after)
    /\ UNCHANGED resourcesRest

\* A load completes with its image.
LoadSucceeds(path, old) ==
    /\ IF old THEN resources.stale[path] > 0 ELSE resources.loading[path] > 0
    /\ resources' = onLoad(resources, path, old)
    /\ UNCHANGED resourcesRest

\* A load completes with an error.
LoadFails(path, old) ==
    /\ IF old THEN resources.stale[path] > 0 ELSE resources.loading[path] > 0
    /\ resources' = onError(resources, path, old)
    /\ UNCHANGED resourcesRest

\* ResourceManager.dispose().
CallResourceDispose ==
    /\ resources' = ResourceManagerDispose(resources)
    /\ UNCHANGED resourcesRest

ResourcesInit ==
    /\ GeometryAbsent
    /\ ShadingAbsent
    /\ pipeline = Unused
    /\ engine = Unused
    /\ resources = NewResources
    /\ boot = Unused

ResourcesNext ==
    \/ \E path \in Paths : CallLoadTexture(path)
    \/ ResumeLoadTexture
    \/ \E path \in Paths, old \in BOOLEAN : LoadSucceeds(path, old)
    \/ \E path \in Paths, old \in BOOLEAN : LoadFails(path, old)
    \/ CallResourceDispose

SpecResources == ResourcesInit /\ [][ResourcesNext]_vars

(* ------------------------ the page's initialization -------------------- *)
(* init() of main.ts and initialize() of TestHarness.ts: the assets are     *)
(* awaited one after the other, each in its own try/catch.                  *)

\* The assets a page loads, in order.  Only main.ts loads the HDR environment.
Assets(page) ==
    IF page = "main.ts" THEN <<"hdr", "artwork", "foilMask", "uvMask", "embossMap">>
    ELSE <<"artwork", "foilMask", "uvMask", "embossMap">>

\* The page before its initialization runs.
NewBoot(page) ==
    [page       |-> page,
     state      |-> "start",
     asset      |-> 1,
     waiting    |-> FALSE,
     hdrTexture |-> Undefined,
     textures   |-> [k \in OptionKeys |-> Undefined],
     caught     |-> {},
     uniforms   |-> Undefined]

\* The asset being loaded.
Asset(b) == Assets(b.page)[b.asset]

\* The await returns the texture: the try block assigns it.
Loaded(b, texture) ==
    [b EXCEPT
        !.hdrTexture = IF Asset(b) = "hdr" THEN texture ELSE b.hdrTexture,
        !.textures   = IF Asset(b) = "hdr" THEN b.textures
                       ELSE [b.textures EXCEPT ![Asset(b)] = texture],
        !.asset      = b.asset + 1,
        !.waiting    = FALSE]

\* A load outside any try block: the rejection ends the initialization.
Uncaught(b) == [b EXCEPT !.state = "failed", !.waiting = FALSE]

\* The await throws: the catch block of the asset assigns the placeholder
\* (the HDR texture stays null).
Caught(b) ==
    [b EXCEPT
        !.textures = IF Asset(b) = "hdr" THEN b.textures
                     ELSE [b.textures EXCEPT ![Asset(b)] =
                              createPlaceholderTexture(Asset(b), 512, 512,
                                                       PlaceholderColor(Asset(b)))],
        !.caught   = b.caught \cup {Asset(b)},
        !.asset    = b.asset + 1,
        !.waiting  = FALSE]

\* What a step of the initialization leaves alone.
bootRest == <<geometryVars, shadingVars, pipeline>>

\* `await ResourceManager.init()` of TestHarness.ts; `new ResourceManager()`
\* of main.ts.
BootStart ==
    /\ boot.state = "start"
    /\ boot' = [boot EXCEPT !.state = "loading"]
    /\ resources' = ResourceManagerInit(resources)
    /\ UNCHANGED <<bootRest, engine>>

\* The page calls loadHDR, loadTexture or loadMask for its next asset and
\* awaits the result.
BootRequest ==
    /\ boot.state = "loading"
    /\ ~boot.waiting
    /\ boot.asset <= Len(Assets(boot.page))
    /\ boot' = [boot EXCEPT !.waiting = TRUE]
    /\ resources' = IF Asset(boot) = "hdr" THEN resources
                    ELSE loadTexture(resources, AssetPath(Asset(boot)))
    /\ UNCHANGED <<bootRest, engine>>

\* The load succeeds.
BootResolved ==
    /\ boot.waiting
    /\ resources' = IF Asset(boot) = "hdr" THEN resources
                    ELSE onLoad(resources, AssetPath(Asset(boot)), FALSE)
    /\ boot' = Loaded(boot, IF Asset(boot) = "hdr" THEN LoadedTexture(HdrPath)
                            ELSE resources'.last.texture)
    /\ UNCHANGED <<bootRest, engine>>

\* The load fails.
BootRejected ==
    /\ boot.waiting
    /\ resources' = IF Asset(boot) = "hdr" THEN resources
                    ELSE onError(resources, AssetPath(Asset(boot)), FALSE)
    /\ boot' = Caught(boot)
    /\ UNCHANGED <<bootRest, engine>>

\* The rest of the initialization: the material is made from the four
\* textures, main.ts initializes the engine with the HDR texture, the render
\* loop is started and main.ts starts its uniform loop.
BootFinish ==
    /\ boot.state = "loading"
    /\ boot.asset > Len(Assets(boot.page))
    /\ boot' = [boot EXCEPT
                   !.state    = "done",
                   !.uniforms = IF boot.page = "main.ts"
                                THEN createMaterial(NewPipelineObject, boot.textures)
                                ELSE createCardMaterial(boot.textures)]
    /\ engine' = IF boot.page = "main.ts"
                 THEN RunCallback([start(init(engine, boot.hdrTexture))
                                      EXCEPT !.uniformLoop = TRUE],
                                  "uniformUpdateLoop")
                 ELSE start(engine)
    /\ UNCHANGED <<bootRest, resources>>

BootInit ==
    /\ GeometryAbsent
    /\ ShadingAbsent
    /\ pipeline = Unused
    /\ boot \in {NewBoot(page) : page \in EngineHosts}
    /\ engine = NewEngine(boot.page)
    /\ resources = NewResources

BootNext ==
    \/ BootStart
    \/ BootRequest
    \/ BootResolved
    \/ BootRejected
    \/ BootFinish

SpecBoot == BootInit /\ [][BootNext]_vars

(* ----------------------- dispose() of each owner ----------------------- *)
(* CardGeometry, the MaterialPipeline object, the ResourceManager and the   *)
(* EngineController each own their resources and share none: each is taken  *)
(* alone, with every call the others do not see.                            *)

\* CardGeometry.dispose: if (this._geometry) this._geometry.dispose().
CardGeometryDisposed(released, held) == released \cup {held}

\* cardGeometry.dispose() is called.
CardGeometryDispose ==
    /\ disposed' = CardGeometryDisposed(disposed, geometry)
    /\ UNCHANGED <<harness, width, height, thickness, cornerRadius, geometry, nextId,
                   attributes, meshGeometry, lastError, segments>>
    /\ UNCHANGED shadingVars
    /\ UNCHANGED hostVars

\* new CardGeometry(options) of the largest card of the bounded lengths.
CardGeometryInit ==
    /\ harness = [width |-> MaxDim, height |-> MaxDim,
                  thickness |-> MaxThickness, cornerRadius |-> 1]
    /\ width = harness.width
    /\ height = harness.height
    /\ thickness = harness.thickness
    /\ cornerRadius = harness.cornerRadius
    /\ geometry = 1
    /\ nextId = 2
    /\ disposed = {0}
    /\ attributes = buildGeometry(harness.width, harness.height,
                                  harness.thickness, harness.cornerRadius)
    /\ meshGeometry = 1
    /\ lastError = "none"
    /\ segments = cornerSegments
    /\ ShadingAbsent
    /\ HostAbsent

DisposeInit ==
    \/ CardGeometryInit
    \/ /\ GeometryAbsent
       /\ ShadingAbsent
       /\ pipeline = NewPipeline("part_006")
       /\ engine = Unused
       /\ resources = Unused
       /\ boot = Unused
    \/ EngineInit
    \/ ResourcesInit

DisposeNext ==
    \/ /\ lastError # Absent
       /\ \/ setCardWidth
          \/ CardGeometryDispose
    \/ /\ pipeline # Unused
       /\ \/ reloadShaders
          \/ MaterialPipelineDispose
          \/ ShadeFrame
    \/ /\ engine # Unused
       /\ EngineNext
    \/ /\ resources # Unused
       /\ ResourcesNext

SpecDispose == DisposeInit /\ [][DisposeNext]_vars

(* ----------------------- reading the attributes ----------------------- *)

\* Outline points of the card as built.
N == NumOutline(cornerSegments)

\* Vertex slot j (as the index buffer counts, from 0) of an attribute.
Slot(attr, j) == attr[j + 1]

\* Slots of the outline point i on the front face, the back face, and the front
\* and back rings of the side band.
FrontSlot(i) == 1 + i

BackSlot(i) == (N + 1) + 1 + i

SideFrontSlot(i) == 2 * (N + 1) + 2 * i

SideBackSlot(i) == 2 * (N + 1) + 2 * i + 1

\* The four rings of outline vertices a build writes, as slot maps.
RingSlot(ring, i) ==
    CASE ring = "front"     -> FrontSlot(i)
      [] ring = "back"      -> BackSlot(i)
      [] ring = "sideFront" -> SideFrontSlot(i)
      [] OTHER              -> SideBackSlot(i)

Rings == {"front", "back", "sideFront", "sideBack"}

\* The stored fields are a valid CardSpec.
StoredSpecValid == ValidSpec(width, height, thickness, cornerRadius)

\* The spec the host last asked for is a valid CardSpec.
RequestedSpecValid ==
    ValidSpec(harness.width, harness.height, harness.thickness, harness.cornerRadius)

\* A quotient lies in [0, 1].
InUnit(q) == q.den > 0 /\ 0 <= q.num /\ q.num <= q.den

\* Triangle t (from 0) of the index buffer, as slots.
Tri(t) == <<attributes.indices[3 * t + 1], attributes.indices[3 * t + 2],
            attributes.indices[3 * t + 3]>>

\* Z of the cross product (b - a) x (c - a) of three positions.
CrossZ(a, b, c) == (b[1] - a[1]) * (c[2] - a[2]) - (b[2] - a[2]) * (c[1] - a[1])

Sign(v) == IF v > 0 THEN 1 ELSE IF v < 0 THEN -1 ELSE 0

(* ------------------------------- C1 ----------------------------------- *)

\* C1: after every build every entry of the index buffer is a valid vertex
\* slot, 0 <= index < number of vertices, the last side quad included.
C1_IndicesValid ==
    \A k \in 1..Len(attributes.indices) :
        /\ attributes.indices[k] >= 0
        /\ attributes.indices[k] < Len(attributes.positions)

(* ------------------------------- C2 ----------------------------------- *)

\* C2: the geometry the mesh in the scene references is the most recently
\* built one and has not been disposed.
C2_MeshHoldsLiveGeometry ==
    /\ meshGeometry = geometry
    /\ meshGeometry \notin disposed

(* ------------------------------- C3 ----------------------------------- *)

\* C3: a constructor / updateDimensions call with an invalid spec is rejected
\* with an error raised to the caller, and no mesh is built for that spec.
C3_InvalidSpecRejected ==
    ~RequestedSpecValid =>
        /\ lastError = "InvalidSpec"
        /\ <<width, height, thickness, cornerRadius>> #
           <<harness.width, harness.height, harness.thickness, harness.cornerRadius>>

(* ------------------------------- C4 ----------------------------------- *)

\* C4: an updateDimensions call with an invalid spec, made when the geometry
\* holds a valid build, changes neither the stored fields nor the geometry.
C4_RejectedRebuildChangesNothing ==
    [][ (StoredSpecValid /\ ~RequestedSpecValid')
            => UNCHANGED <<width, height, thickness, cornerRadius, geometry, attributes>>
      ]_vars

(* ------------------------------- C5 ----------------------------------- *)

\* C5 as stated: the index buffer holds 2*(N+1) front/back triangles plus
\* 2*N side triangles (146 for N = 36).
C5_TriangleCountAsStated ==
    Len(attributes.indices) = 3 * (2 * (N + 1) + 2 * N)

\* C5 as amended: the index buffer holds 2*N front/back triangles (a closed fan
\* of N triangles on each face, all on that face's vertices) followed by 2*N
\* side triangles on side-band slots; for cornerSegments = 8 that is N = 36 and
\* 72 + 72 = 144 triangles.
C5_TriangleCount ==
    /\ Len(attributes.indices) = 3 * (2 * N + 2 * N)
    /\ \A t \in 0..(N - 1) : \A c \in 1..3 : Tri(t)[c] \in 0..N
    /\ \A t \in N..(2 * N - 1) : \A c \in 1..3 : Tri(t)[c] \in (N + 1)..(2 * N + 1)
    /\ \A t \in (2 * N)..(4 * N - 1) : \A c \in 1..3 : Tri(t)[c] >= 2 * (N + 1)
    /\ (cornerSegments = 8 => (N = 36 /\ Len(attributes.indices) = 3 * 144))

\* C5 witness: a rebuild of a valid spec has produced the 144-triangle buffer.
C5_Witness ==
    /\ nextId > 2
    /\ StoredSpecValid
    /\ Len(attributes.indices) = 3 * 144

(* ------------------------------- C6 ----------------------------------- *)

\* The corner of the rectangle that arc q rounds, in fixed point.
RectCorner(q) ==
    [x |-> IF q \in {0, 3} THEN width * One ELSE -(width * One),
     y |-> IF q \in {0, 1} THEN height * One ELSE -(height * One)]

\* Position p lies in the corner square of arc q: within the corner radius of
\* the rectangle corner on both axes, inside the rectangle.
InCornerSquare(q, p) ==
    LET c == RectCorner(q)
        r == cornerRadius * PosScale
    IN  /\ IF c.x > 0 THEN c.x - r <= p[1] /\ p[1] <= c.x
                      ELSE c.x <= p[1] /\ p[1] <= c.x + r
        /\ IF c.y > 0 THEN c.y - r <= p[2] /\ p[2] <= c.y
                      ELSE c.y <= p[2] /\ p[2] <= c.y + r

RECURSIVE SignedArea2(_, _)
\* Twice the signed area of a ring, summed over its edges i .. N-1 (shoelace).
SignedArea2(ring, i) ==
    IF i >= N THEN 0
    ELSE LET a == Slot(attributes.positions, RingSlot(ring, i))
             b == Slot(attributes.positions, RingSlot(ring, (i + 1) % N))
         IN  (a[1] * b[2] - b[1] * a[2]) + SignedArea2(ring, i + 1)

\* C6: for every valid spec, cornerRadius = 0 included, each outline written
\* (front face, back face, both rings of the side band) has 4*(cornerSegments+1)
\* points, in the arc order top-right, top-left, bottom-left, bottom-right,
\* traversed counter-clockwise; with cornerRadius = 0 every point of an arc is
\* the rectangle corner of that arc.
C6_OutlineShape ==
    StoredSpecValid =>
        /\ N = 4 * (cornerSegments + 1)
        /\ Len(attributes.positions) = 2 * (N + 1) + 2 * N
        /\ \A ring \in Rings :
            /\ \A i \in 0..(N - 1) :
                 LET p == Slot(attributes.positions, RingSlot(ring, i))
                     q == i \div (cornerSegments + 1)
                 IN  /\ InCornerSquare(q, p)
                     /\ cornerRadius = 0 =>
                            (p[1] = RectCorner(q).x /\ p[2] = RectCorner(q).y)
            /\ \A i \in 0..(N - 1) :
                 LET a == Slot(attributes.positions, RingSlot(ring, i))
                     b == Slot(attributes.positions, RingSlot(ring, (i + 1) % N))
                 IN  a[1] * b[2] - b[1] * a[2] >= 0
            /\ SignedArea2(ring, 0) >= 0

\* C6 witness: a rebuild has produced the sharp rectangle (cornerRadius = 0) of
\* a valid spec.
C6_Witness ==
    /\ nextId > 2
    /\ StoredSpecValid
    /\ cornerRadius = 0
    /\ Len(attributes.positions) = 2 * (N + 1) + 2 * N

(* ------------------------------- C7 ----------------------------------- *)

\* C7: every front-face and back-face triangle of non-zero area is wound
\* counter-clockwise about the normal stored on its vertices: +Z on the front
\* face, -Z on the back face.
C7_FaceWindingMatchesNormal ==
    StoredSpecValid =>
        \A t \in 0..(2 * N - 1) :
            LET tri == Tri(t)
                cz  == CrossZ(Slot(attributes.positions, tri[1]),
                              Slot(attributes.positions, tri[2]),
                              Slot(attributes.positions, tri[3]))
            IN  cz # 0 =>
                    \A c \in 1..3 : Sign(Slot(attributes.normals, tri[c])[3]) = Sign(cz)

(* ------------------------------- C8 ----------------------------------- *)

\* C8: for every outline edge of non-zero length the normal stored on the two
\* side-band vertices of the edge has zero Z, points away from the card centre
\* (positive dot product with the edge midpoint) and along the geometric
\* normal of the side quad (whose XY direction is (dy, -dx) of the edge).
C8_SideNormalsOutward ==
    StoredSpecValid =>
        \A i \in 0..(N - 1) :
            LET a  == Slot(attributes.positions, SideFrontSlot(i))
                b  == Slot(attributes.positions, SideFrontSlot((i + 1) % N))
                dx == b[1] - a[1]
                dy == b[2] - a[2]
            IN  (dx # 0 \/ dy # 0) =>
                    \A s \in {SideFrontSlot(i), SideBackSlot(i)} :
                        LET n == Slot(attributes.normals, s)
                        IN  /\ n[3] = 0
                            /\ n[1] * (a[1] + b[1]) + n[2] * (a[2] + b[2]) > 0
                            /\ n[1] * dy - n[2] * dx > 0

(* ------------------------------- C9 ----------------------------------- *)

\* U of outline point i on the side band.
SideU(i) == Slot(attributes.uvs, SideFrontSlot(i))[1]

\* C9: the side-band U is 0 at the first outline point, non-decreasing over
\* the outline indices, and exactly 1.0 at the last point before the wrap.
C9_SideUReachesOne ==
    StoredSpecValid =>
        /\ SideU(0).den > 0
        /\ SideU(0).num = 0
        /\ \A i \in 0..(N - 2) :
              SideU(i).num * SideU(i + 1).den <= SideU(i + 1).num * SideU(i).den
        /\ SideU(N - 1).num = SideU(N - 1).den

(* ------------------------------- C10 ---------------------------------- *)

NOutline == NumOutline(segments)

\* C11: front face, back face and side band share one outline: for every
\* outline index i the back-face vertex i has the same (x, y) and the same
\* (u, v) as the front-face vertex i (the back outline is not mirrored in X),
\* and the front and back side-band vertices of pair i have that same (x, y).
C11_SharedOutline ==
    (StoredSpecValid /\ segments > 0) =>
        \A i \in 0..(NOutline - 1) :
            LET front     == 1 + i
                back      == (NOutline + 1) + 1 + i
                sideFront == 2 * (NOutline + 1) + 2 * i
                sideBack  == 2 * (NOutline + 1) + 2 * i + 1
                p         == Slot(attributes.positions, front)
            IN  /\ Slot(attributes.uvs, back) = Slot(attributes.uvs, front)
                /\ \A s \in {back, sideFront, sideBack} :
                      /\ Slot(attributes.positions, s)[1] = p[1]
                      /\ Slot(attributes.positions, s)[2] = p[2]

(* ------------------------------- C12 ---------------------------------- *)

\* C12: the position, normal, uv and index buffers depend only on the current
\* (width, height, thickness, cornerRadius, cornerSegments): whatever
\* updateDimensions calls led to the current parameters, the buffers are the
\* ones a fresh build of these parameters yields.
C12_BuffersDependOnlyOnSpec ==
    attributes = buildGeometry(width, height, thickness, cornerRadius)

\* C12 witness: the current valid spec was reached through the largest number
\* of updateDimensions calls explored, and the card was constructed with
\* another spec.
C12_Witness ==
    /\ nextId = 2 + MaxRebuilds
    /\ StoredSpecValid
    /\ Len(attributes.positions) = 2 * (N + 1) + 2 * N

(* ------------------------------- C13 ---------------------------------- *)

\* C13: with cornerSegments = 0 each corner arc is a single well-defined
\* point: the outline has 4 points with finite coordinates and UVs in [0, 1];
\* i / cornerSegments yields no undefined value.
C13_ZeroSegmentsOutline ==
    (StoredSpecValid /\ segments = 0) =>
        /\ NOutline = 4
        /\ Len(attributes.positions) = 2 * (NOutline + 1) + 2 * NOutline
        /\ \A i \in 0..(NOutline - 1) :
              LET p  == Slot(attributes.positions, 1 + i)
                  uv == Slot(attributes.uvs, 1 + i)
              IN  /\ IsFinite(p[1]) /\ IsFinite(p[2])
                  /\ InUnit(uv[1]) /\ InUnit(uv[2])

(* ------------------------------- C14 ---------------------------------- *)

CompletePrograms == {"fragment", "createMaterial"}

\* The stage names of the log, in the order the stages ran.
StagesRun == [i \in 1..Len(frag.log) |-> frag.log[i].stage]

\* main has written gl_FragColor.
Shaded == frag.fragColor # Unset

\* The 0.01 below which a mask or height sample turns a stage off.
Threshold == One \div 100

(* ------------------------------- C15 ---------------------------------- *)

\* C15: the fragment program runs its stages in the fixed order emboss, foil,
\* UV gloss, basic lighting: foil and UV gloss receive the normal emboss
\* returned (not the interpolated vertex normal), UV gloss receives the colour
\* foil returned, and the diffuse lighting factor is multiplied in exactly
\* once, after both colour stages, with the normal emboss returned.
C15_StageOrder ==
    /\ \A i \in 1..Len(frag.log) :
          frag.log[i].stage = <<"emboss", "foil", "uv", "lighting">>[i]
    /\ Len(frag.log) >= 2 => frag.log[2].normalIn = frag.log[1].out
    /\ Len(frag.log) >= 3 =>
          /\ frag.log[3].normalIn = frag.log[1].out
          /\ frag.log[3].colorIn = frag.log[2].out
    /\ Shaded =>
          /\ Len(frag.log) = 4
          /\ frag.log[4].normalIn = frag.log[1].out
          /\ frag.log[4].colorIn = frag.log[3].out
          /\ frag.fragColor =
                VScale(frag.log[3].out,
                       One \div 2 + Quot((One \div 2) *
                                         Max0(dot(frag.log[1].out, frag.lightDir)), One))

(* ------------------------------- C16 ---------------------------------- *)

\* C16: with foil, UV gloss and emboss all disabled the fragment output is
\* baseColor * (0.5 + 0.5 * max(dot(normal, lightDir), 0)) for every base
\* colour sampled from the artwork (black and near black included), every
\* normal and every light direction.
C16_PlainLitBaseColor ==
    (/\ frag.program \in CompletePrograms
     /\ Shaded
     /\ ~frag.px.foilEnabled /\ ~frag.px.uvEnabled /\ ~frag.px.embossEnabled) =>
        frag.fragColor =
            VScale(frag.px.artwork,
                   One \div 2 + Quot((One \div 2) *
                                     Max0(dot(frag.px.vNormal,
                                              normalize(frag.px.lightDirection))), One))

(* ------------------------------- C17 ---------------------------------- *)

\* C17: the foil stage with foilEnabled = true and a mask sample of 0 returns
\* exactly the colour it returns with foilEnabled = false: its input, unchanged.
C17_FoilMaskZeroIsDisabled ==
    \A i \in 1..Len(frag.log) :
        (/\ frag.program \in CompletePrograms
         /\ frag.log[i].stage = "foil"
         /\ frag.px.foilEnabled
         /\ frag.px.foilMaskSample = 0) =>
            /\ frag.log[i].out = frag.log[i].colorIn
            /\ frag.log[i].out =
                  applyFoilLayer(frag.log[i].colorIn, frag.log[i].normalIn, frag.viewDir,
                                 frag.lightDir, [frag.px EXCEPT !.foilEnabled = FALSE])

\* C17 witness: the foil stage of a complete main has run on a coloured base
\* with foil enabled and a mask sample of 0.
C17_Witness ==
    /\ frag.program \in CompletePrograms
    /\ frag.px.foilEnabled
    /\ frag.px.foilMaskSample = 0
    /\ Len(frag.log) >= 2
    /\ frag.log[2].stage = "foil"
    /\ frag.log[2].colorIn # <<0, 0, 0>>
    /\ frag.log[2].colorIn # foilColor

(* ------------------------------- C18 ---------------------------------- *)

\* C18: the emboss stage returns its input normal unchanged whenever
\* embossEnabled is false or the height sample is below the 0.01 threshold
\* (0 in particular), whatever embossIntensity and the neighbouring height
\* samples are.
C18_EmbossOffIsIdentity ==
    \A i \in 1..Len(frag.log) :
        (/\ frag.program \in CompletePrograms
         /\ frag.log[i].stage = "emboss"
         /\ (~frag.px.embossEnabled \/ frag.px.height < Threshold)) =>
            /\ frag.log[i].out = frag.log[i].normalIn
            /\ frag.log[i].out = frag.px.vNormal

\* C18 witness: the emboss stage has run disabled on a fragment whose height
\* sample is above the threshold and whose neighbours slope.
C18_Witness ==
    /\ frag.program \in CompletePrograms
    /\ ~frag.px.embossEnabled
    /\ frag.px.height >= Threshold
    /\ frag.px.heightL # frag.px.heightR
    /\ frag.px.embossIntensity = One
    /\ Len(frag.log) >= 1
    /\ frag.log[1].stage = "emboss"

(* ------------------------------- C19 ---------------------------------- *)

\* C19: when UV gloss is enabled and the mask sample is at least 0.01 the
\* colour is blended toward the clearcoat tint with the weight
\* mask * glossiness * (0.1 + 0.9 * fresnel), fresnel =
\* (1 - max(dot(view, normal), 0))^2, with no further scaling (the highlight
\* is added to the blend); disabled, or with mask < 0.01, the stage returns
\* its input unchanged.
C19_ClearcoatWeight ==
    \A i \in 1..Len(frag.log) :
        (frag.program \in CompletePrograms /\ frag.log[i].stage = "uv") =>
            frag.log[i].out =
                IF frag.px.uvEnabled /\ frag.px.uvMaskSample >= Threshold
                THEN VAdd(VMix(frag.log[i].colorIn, clearcoatColor,
                               Quot(Quot(frag.px.uvMaskSample * frag.px.uvGlossiness, One) *
                                    (One \div 10 +
                                     Quot(((9 * One) \div 10) *
                                          pow(One - Max0(dot(frag.viewDir,
                                                             frag.log[i].normalIn)), 2),
                                          One)),
                                    One)),
                          UVSpecular(frag.log[i].normalIn, frag.viewDir, frag.lightDir,
                                     frag.px))
                ELSE frag.log[i].colorIn

(* ------------------------------- C20 ---------------------------------- *)

\* The main uniform of a texture option.
MainUniform(key) ==
    CASE key = "artwork"  -> "uArtworkMap"
      [] key = "foilMask" -> "uFoilMask"
      [] key = "uvMask"   -> "uUvMask"
      [] OTHER            -> "uEmbossMap"

\* The uniforms that hold a texture.
TextureUniforms ==
    {"uArtworkMap", "uFoilMask", "uUvMask", "uEmbossMap",
     "foilMask", "uvMask", "embossHeightMap"}

\* Each alias uniform references the texture of its main uniform.
AliasesAgree(uniforms) ==
    /\ uniforms.foilMask = uniforms.uFoilMask
    /\ uniforms.uvMask = uniforms.uUvMask
    /\ uniforms.embossHeightMap = uniforms.uEmbossMap

\* C20: updateLayerTextures replaces exactly the texture slots present in its
\* options and leaves every other texture uniform, every toggle and intensity
\* uniform and the lighting uniforms unchanged; before and after every call
\* each alias uniform (foilMask, uvMask, embossHeightMap) references the same
\* texture as its main uniform (uFoilMask, uUvMask, uEmbossMap).
C20_UpdateLayerTexturesFrame ==
    [][ /\ \A key \in OptionKeys :
             material'[MainUniform(key)] =
                 IF call'.options[key] # Undefined THEN call'.options[key]
                 ELSE material[MainUniform(key)]
        /\ \A u \in (DOMAIN material) \ TextureUniforms : material'[u] = material[u]
        /\ DOMAIN material' = DOMAIN material
        /\ AliasesAgree(material)
        /\ AliasesAgree(material')
      ]_vars

\* C20 witness: an updateLayerTextures call that gave only the foil mask has
\* replaced it, main uniform and alias, on a material whose UV mask is a
\* loaded texture and whose artwork is still the placeholder.
C20_Witness ==
    /\ call.name = "updateLayerTextures"
    /\ call.options = [artwork |-> Undefined, foilMask |-> LoadedTexture("textureA"),
                       uvMask |-> Undefined, embossMap |-> Undefined]
    /\ material.uFoilMask = LoadedTexture("textureA")
    /\ material.foilMask = LoadedTexture("textureA")
    /\ material.uUvMask = LoadedTexture("textureB")
    /\ material.uvMask = LoadedTexture("textureB")
    /\ material.uArtworkMap =
           createPlaceholderTexture("artwork", 512, 512, PlaceholderColor("artwork"))
    /\ ~material.foilEnabled

(* ------------------------------- C21 ---------------------------------- *)

\* The texture option a texture uniform is bound from.
OptionOf(u) ==
    CASE u \in {"uArtworkMap"}             -> "artwork"
      [] u \in {"uFoilMask", "foilMask"}   -> "foilMask"
      [] u \in {"uUvMask", "uvMask"}       -> "uvMask"
      [] OTHER                             -> "embossMap"

\* The value prescribed for the placeholder of a slot: artwork
\* (0.8, 0.8, 0.9), foil and UV masks 0, emboss 0.5.
Prescribed(key) ==
    CASE key = "artwork"   -> <<800, 800, 900>>
      [] key = "embossMap" -> <<500, 500, 500>>
      [] OTHER             -> <<0, 0, 0>>

\* texture is a flat texture of the prescribed value of the slot: a canvas
\* filled with one colour whose 8-bit channels are each within one level
\* (1/255) of the prescribed value.
FlatPlaceholderOf(key, texture) ==
    /\ DOMAIN texture = {"placeholder", "canvas", "fillStyle"}
    /\ \A i \in 1..3 :
          /\ texture.fillStyle[i] \in 0..255
          /\ texture.fillStyle[i] * 1000 - 255 * Prescribed(key)[i] < 1000
          /\ 255 * Prescribed(key)[i] - texture.fillStyle[i] * 1000 < 1000

C22_UniformFollowsToggle ==
    /\ \A layer \in Layers :
          pipeline.uniforms[EnabledUniform(layer)] = pipeline.classList[layer]
    /\ pipeline.fresh =>
          \A layer \in Layers : pipeline.frame[layer] = pipeline.classList[layer]

(* ------------------------------- C26 ---------------------------------- *)

\* The number lies in [0, 1].
InUnitInterval(v) ==
    /\ IsFinite(v)
    /\ ~Less(v, Finite(0))
    /\ ~Less(Finite(One), v)

\* The bound of [0, 1] nearest to a number outside it, the number itself inside.
NearestInUnit(v) ==
    IF Less(v, Finite(0)) THEN Finite(0)
    ELSE IF Less(Finite(One), v) THEN Finite(One)
    ELSE v

\* C26: after any sequence of setFoilIntensity, setUVGlossiness and
\* setEmbossIntensity calls with arbitrary numbers, each stored intensity
\* lies in [0, 1], an argument out of range having been clamped to the
\* nearest bound, and equals its material uniform; after reloadShaders the
\* new material has the three intensities and the three enabled flags.
C26_IntensitiesClamped ==
    pipeline.harness = "part_006" =>
        /\ \A layer \in Layers :
              /\ InUnitInterval(pipeline.object[IntensityUniform(layer)])
              /\ pipeline.uniforms[IntensityUniform(layer)] =
                     pipeline.object[IntensityUniform(layer)]
              /\ pipeline.uniforms[EnabledUniform(layer)] =
                     pipeline.object[EnabledUniform(layer)]
        /\ pipeline.last.name = "set" =>
              pipeline.object[IntensityUniform(pipeline.last.layer)] =
                  NearestInUnit(pipeline.last.intensity)

(* ------------------------------- C23 ---------------------------------- *)

\* C23: every render the frame loop issues reads a cameraPosition uniform
\* that was set from the camera's world position as it is at that render,
\* never a value left from construction or from an earlier frame while the
\* camera has moved since.  (The light direction the pages set each frame is
\* the constant the material is made with.)
C23_FrameContextFresh ==
    \A i \in 1..Len(engine.rendered) :
        engine.rendered[i].cameraPosition = engine.rendered[i].worldPosition

(* ------------------------------- C27 ---------------------------------- *)

\* The pending animation-frame callbacks that are the controller's animate.
PendingAnimate == SelectSeq(engine.pending, LAMBDA c : c.callback = "animate")

C28_NoWorkAfterDispose ==
    /\ Len(engine.listeners) <= 1
    /\ ~engine.rendererLive => engine.listeners = <<>>
    /\ ~engine.usedReleased

(* ------------------------------- C29 ---------------------------------- *)

\* C29: loadTexture caches by path.  Once a load of a path has succeeded,
\* every later loadTexture or loadMask call for the path, until dispose(),
\* returns that same texture and starts no load; a load that fails rejects,
\* leaves the cache as it was, and a later call for the path loads again.
C29_CachedByPath ==
    /\ \A hit \in resources.returned :
          hit[1] \in DOMAIN resources.first /\ hit[2] = resources.first[hit[1]]
    /\ resources.last.name = "load" => ~resources.last.after
    /\ resources.last.name = "rejected" =>
          /\ resources.loadedTextures = resources.last.cache
          /\ resources.last.path \in DOMAIN resources.loadedTextures =>
                resources.last.path \in DOMAIN resources.first

(* ------------------------------- C30 ---------------------------------- *)

\* The textures the cache holds.
Cached == {resources.loadedTextures[p] : p \in DOMAIN resources.loadedTextures}

\* C30: under any interleaving of loadTexture calls, completions and
\* dispose(), every texture delivered to a caller is in the cache until it is
\* disposed (overlapping loads of a path leave no texture untracked), a load
\* that completes after dispose() puts nothing in the cache, and no call
\* fails with 'ResourceManager not initialized'.
C30_LoadsAndDispose ==
    /\ resources.delivered \ resources.disposed \subseteq Cached
    /\ ~resources.repopulated
    /\ resources.last.name # "ResourceManager not initialized"

(* ------------------------------- C24 ---------------------------------- *)

\* The texture uniform a page's material binds a slot to.
UniformOf(page, key) ==
    IF page = "main.ts"
    THEN CASE key = "artwork"  -> "artworkTexture"
           [] key = "foilMask" -> "foilMask"
           [] key = "uvMask"   -> "uvMask"
           [] OTHER            -> "embossHeightMap"
    ELSE CASE key = "artwork"  -> "uArtworkMap"
           [] key = "foilMask" -> "uFoilMask"
           [] key = "uvMask"   -> "uUvMask"
           [] OTHER            -> "uEmbossMap"

====
